---- MODULE Spec2Model ----
(***************************************************************************)
(* Model of the umarell integration scripts:                               *)
(*   - ifc_to_graph.py      import of IfcSpace entities into the graph     *)
(*   - llm_router_tool.py   keyword router over graph / time-series stores *)
(*   - umarell_tool.py      toolkit: topology, sensor config, zone metrics *)
(* Text is modelled as a sequence of one-character strings, so that        *)
(* lowercasing, substring containment, replacement and stripping are       *)
(* computed character by character as the Python code computes them.       *)
(***************************************************************************)
EXTENDS Integers, Sequences, FiniteSets, Bags, TLC

(***************************************************************************)
(* Text primitives (Python str)                                            *)
(***************************************************************************)

\* Python's None.  A one-element sequence holding a token that is not a
\* character, so that it is comparable with texts and equal to none of them.
None == <<"~None~">>

LowerCase == <<"a", "b", "c", "d", "e", "f", "g", "h", "i", "j", "k", "l", "m",
               "n", "o", "p", "q", "r", "s", "t", "u", "v", "w", "x", "y", "z">>
UpperCase == <<"A", "B", "C", "D", "E", "F", "G", "H", "I", "J", "K", "L", "M",
               "N", "O", "P", "Q", "R", "S", "T", "U", "V", "W", "X", "Y", "Z">>
Digits == {"0", "1", "2", "3", "4", "5", "6", "7", "8", "9"}
Whitespace == {" ", "\n", "\t"}

\* str.lower() and str.upper() on one character
UpperSet == {UpperCase[i] : i \in 1..26}
LowerSet == {LowerCase[i] : i \in 1..26}
ToLower == [c \in UpperSet |-> LowerCase[CHOOSE i \in 1..26 : UpperCase[i] = c]]
ToUpper == [c \in LowerSet |-> UpperCase[CHOOSE i \in 1..26 : LowerCase[i] = c]]
LowerChar(c) == IF c \in UpperSet THEN ToLower[c] ELSE c
UpperChar(c) == IF c \in LowerSet THEN ToUpper[c] ELSE c

lower(s) == [i \in 1..Len(s) |-> LowerChar(s[i])]
upper(s) == [i \in 1..Len(s) |-> UpperChar(s[i])]

\* Python truthiness of an optional text: None and '' are falsy
Truthy(t) == t # None /\ t # <<>>

\* str(x) as used by f-strings and str(): None renders as the text 'None'
str(t) == IF t = None THEN <<"N", "o", "n", "e">> ELSE t

\* sub in s   (Python substring test)
Contains(sub, s) ==
    \E i \in 1..(Len(s) - Len(sub) + 1) : SubSeq(s, i, i + Len(sub) - 1) = sub

\* str.strip(): drop leading and trailing whitespace
RECURSIVE lstrip(_)
lstrip(s) == IF s # <<>> /\ s[1] \in Whitespace THEN lstrip(Tail(s)) ELSE s
RECURSIVE rstrip(_)
rstrip(s) ==
    IF s # <<>> /\ s[Len(s)] \in Whitespace
    THEN rstrip(SubSeq(s, 1, Len(s) - 1))
    ELSE s
strip(s) == rstrip(lstrip(s))

(***************************************************************************)
(* ifc_to_graph.normalize                                                  *)
(***************************************************************************)

\* the character class [a-z0-9]
IsAlnum(c) == c \in Digits \/ c \in LowerSet

\* re.sub(r"[^a-z0-9]+", " ", s): every maximal run of characters outside
\* [a-z0-9] becomes one space
RECURSIVE SkipNonAlnum(_)
SkipNonAlnum(s) ==
    IF s # <<>> /\ ~IsAlnum(s[1]) THEN SkipNonAlnum(Tail(s)) ELSE s
RECURSIVE SubNonAlnum(_)
SubNonAlnum(s) ==
    IF s = <<>> THEN <<>>
    ELSE IF IsAlnum(s[1]) THEN <<s[1]>> \o SubNonAlnum(Tail(s))
    ELSE <<" ">> \o SubNonAlnum(SkipNonAlnum(s))

\* A slip in the order of the steps: strip before the substitution
normalize_StripFirst(text) ==
    IF ~Truthy(text) THEN <<>>
    ELSE SubNonAlnum(strip(lower(str(text))))

normalize(text) ==
    IF ~Truthy(text) THEN <<>>
    ELSE strip(SubNonAlnum(lower(str(text))))

(***************************************************************************)
(* ifc_to_graph.main: category translation (IT -> EN)                      *)
(***************************************************************************)

\* the term table, in declaration order (dict iteration order)
category_map == <<
    [k_it |-> <<"U", "F", "F", "I", "C", "I">>,
     v_en |-> <<"O", "f", "f", "i", "c", "e">>],
    [k_it |-> <<"A", "U", "L", "E">>,
     v_en |-> <<"C", "l", "a", "s", "s", "r", "o", "o", "m">>],
    [k_it |-> <<"A", "U", "L", "A">>,
     v_en |-> <<"C", "l", "a", "s", "s", "r", "o", "o", "m">>],
    [k_it |-> <<"S", "E", "R", "V", "I", "Z", "I">>,
     v_en |-> <<"R", "e", "s", "t", "r", "o", "o", "m">>],
    [k_it |-> <<"W", "C">>,
     v_en |-> <<"R", "e", "s", "t", "r", "o", "o", "m">>],
    [k_it |-> <<"C", "I", "R", "C", ".", "O", "R", "I", "Z">>,
     v_en |-> <<"C", "o", "r", "r", "i", "d", "o", "r">>],
    [k_it |-> <<"C", "O", "N", "N", "E", "T", "T", "I", "V", "O">>,
     v_en |-> <<"C", "o", "r", "r", "i", "d", "o", "r">>],
    [k_it |-> <<"S", "C", "A", "L", "E">>,
     v_en |-> <<"S", "t", "a", "i", "r", "s">>],
    [k_it |-> <<"D", "E", "P", "O", "S", "I", "T", "I">>,
     v_en |-> <<"S", "t", "o", "r", "a", "g", "e">>],
    [k_it |-> <<"D", "E", "P", "O", "S", "I", "T", "O">>,
     v_en |-> <<"S", "t", "o", "r", "a", "g", "e">>],
    [k_it |-> <<"T", "E", "C", "N", "I", "C", "I">>,
     v_en |-> <<"T", "e", "c", "h", "n", "i", "c", "a", "l", " ", "R", "o", "o", "m">>],
    [k_it |-> <<"L", "O", "C", "A", "L", "E", " ", "T", "E", "C", "N", "I", "C", "O">>,
     v_en |-> <<"T", "e", "c", "h", "n", "i", "c", "a", "l", " ", "R", "o", "o", "m">>],
    [k_it |-> <<"L", "A", "B", "O", "R", "A", "T", "O", "R", "I">>,
     v_en |-> <<"L", "a", "b", "o", "r", "a", "t", "o", "r", "y">>],
    [k_it |-> <<"L", "A", "B", "O", "R", "A", "T", "O", "R", "I", "O">>,
     v_en |-> <<"L", "a", "b", "o", "r", "a", "t", "o", "r", "y">>],
    [k_it |-> <<"R", "I", "S", "T", "O", "R", "O">>,
     v_en |-> <<"B", "r", "e", "a", "k", " ", "R", "o", "o", "m">>],
    [k_it |-> <<"S", "P", "A", "Z", "I", " ", "C", "O", "M", "P", "L", "E", "M", "E", "N", "T", "A", "R", "I">>,
     v_en |-> <<"S", "u", "p", "p", "o", "r", "t", " ", "S", "p", "a", "c", "e">>],
    [k_it |-> <<"S", "A", "L", "A", " ", "R", "I", "U", "N", "I", "O", "N", "I">>,
     v_en |-> <<"M", "e", "e", "t", "i", "n", "g", " ", "R", "o", "o", "m">>],
    [k_it |-> <<"S", "A", "L", "A", " ", "S", "T", "U", "D", "I", "O">>,
     v_en |-> <<"S", "t", "u", "d", "y", " ", "R", "o", "o", "m">>]
>>

\* the loop over category_map.items(): the first entry, from index i on,
\* whose term is contained in the description d; None when there is none
RECURSIVE ScanCategoryMap(_, _)
ScanCategoryMap(d, i) ==
    IF i > Len(category_map) THEN None
    ELSE IF Contains(category_map[i].k_it, d) THEN category_map[i].v_en
    ELSE ScanCategoryMap(d, i + 1)

\* A slip: the description is compared without upper-casing it
category_en_CaseSensitive(category_it) ==
    IF ~Truthy(category_it) THEN None
    ELSE ScanCategoryMap(category_it, 1)

category_en(category_it) ==
    IF ~Truthy(category_it) THEN None
    ELSE ScanCategoryMap(upper(category_it), 1)

(***************************************************************************)
(* The sensor-config keys and the IfcSpace entities the runs draw from     *)
(***************************************************************************)

\* keys of room_to_sensor_map that a config may hold
K_Room101 == <<"R", "o", "o", "m", " ", "1", "0", "1">>
K_Office == <<"O", "f", "f", "i", "c", "e">>
K_g1 == <<"g", "1">>
K_Dash == <<"-">>
K_Empty == <<>>
K_Long == <<"R", "o", "o", "m", " ", "1", "0", "1", " ", "O", "f", "f", "i", "c", "e", " ", "R", "1", " ", "E", "a", "s", "t">>
K_none == <<"n", "o", "n", "e">>
K_Lab7 == <<"L", "a", "b", " ", "7">>
K_Auto == <<"i", "f", "c", "_", "a", "u", "t", "o", "_", "G", "3">>

KeyUniverse ==
    {K_Room101, K_Office, K_g1, K_Dash, K_Empty, K_Long, K_none, K_Lab7, K_Auto}

\* IfcSpace entities a model may hold, as the attributes main extracts
Space1 ==
    [Name |-> <<"R", "1">>, LongName |-> <<"R", "o", "o", "m", " ", "1", "0", "1", " ", "O", "f", "f", "i", "c", "e">>, GlobalId |-> <<"G", "1">>,
     ObjectType |-> <<"O", "f", "f", "i", "c", "e">>, storey_name |-> <<"L", "e", "v", "e", "l", " ", "1">>,
     custom_storey |-> <<"0", "1">>, area |-> <<"1", "2">>, is_external |-> <<"F", "a", "l", "s", "e">>,
     category_it |-> <<"U", "f", "f", "i", "c", "i", " ", "d", "o", "c", "e", "n", "t", "i">>, psets |-> <<"{", "1", "}">>]
Space2 ==
    [Name |-> <<"R", "2">>, LongName |-> <<"R", "o", "o", "m", " ", "1", "0", "1", " ", "S", "t", "o", "r", "e">>, GlobalId |-> <<"G", "2">>,
     ObjectType |-> None, storey_name |-> <<"L", "e", "v", "e", "l", " ", "1">>,
     custom_storey |-> None, area |-> None, is_external |-> None,
     category_it |-> <<"D", "E", "P", "O", "S", "I", "T", "I">>, psets |-> <<"{", "2", "}">>]
Space3 ==
    [Name |-> None, LongName |-> None, GlobalId |-> <<"G", "3">>,
     ObjectType |-> None, storey_name |-> None,
     custom_storey |-> None, area |-> None, is_external |-> None,
     category_it |-> None, psets |-> <<"{", "}">>]
Space4 ==
    [Name |-> <<"X", "9">>, LongName |-> None, GlobalId |-> None,
     ObjectType |-> None, storey_name |-> None,
     custom_storey |-> None, area |-> None, is_external |-> None,
     category_it |-> None, psets |-> <<"{", "}">>]

SpaceUniverse == {Space1, Space2, Space3, Space4}

(***************************************************************************)
(* ifc_to_graph.main: room identity resolution                             *)
(***************************************************************************)

\* the five normalized candidates of a space
p_name(space) == normalize(space.Name)
p_long(space) == normalize(space.LongName)
p_global(space) == normalize(space.GlobalId)
p_combined_1(space) == normalize(str(space.LongName) \o <<" ">> \o str(space.Name))
p_combined_2(space) == normalize(str(space.Name) \o <<" ">> \o str(space.LongName))

\* A slip: only the exact comparison, the two containment tests dropped
KeyMatches_ExactOnly(key, space) ==
    normalize(key) \in {p_global(space), p_name(space), p_long(space),
                        p_combined_1(space), p_combined_2(space)}

\* the three tests of the loop body, any of which sets found_key
KeyMatches(key, space) ==
    LET k == normalize(key)
    IN  \/ k \in {p_global(space), p_name(space), p_long(space),
                  p_combined_1(space), p_combined_2(space)}
        \/ Contains(k, p_combined_1(space)) \/ Contains(k, p_combined_2(space))
        \/ Contains(p_combined_1(space), k) \/ Contains(p_combined_2(space), k)

\* `for key in room_keys: ... break`: the first key, in the iteration order
\* of the set, that passes a test; None when the loop ends without a break
\* (the outcome of the tests for each key and space, computed once)
MatchTable ==
    [key \in KeyUniverse |-> [space \in SpaceUniverse |-> KeyMatches(key, space)]]

RECURSIVE found_key(_, _)
found_key(order, space) ==
    IF order = <<>> THEN None
    ELSE IF MatchTable[Head(order)][space] THEN Head(order)
    ELSE found_key(Tail(order), space)

ifc_auto_ == <<"i", "f", "c", "_", "a", "u", "t", "o", "_">>

\* A slip: the fallback identity without its prefix
final_key_NoPrefix(found, globalid) ==
    IF ~Truthy(found) /\ Truthy(globalid) THEN globalid ELSE found

\* final_key = found_key, or the generated fallback when nothing matched and
\* the space has a global id
final_key(found, globalid) ==
    IF ~Truthy(found) /\ Truthy(globalid) THEN ifc_auto_ \o globalid ELSE found

\* A slip: the statement is issued whether or not a key was determined
HasKey_Always(fkey) == TRUE

\* `if final_key:` the guard of the upsert
HasKey(fkey) == Truthy(fkey)

(***************************************************************************)
(* ifc_to_graph.main: the record written for a space                       *)
(***************************************************************************)

\* float(area), shown as Python shows a float parsed from whole-number text
float(a) == a \o <<".", "0">>

\* final_storey = custom_storey if custom_storey else storey_name
final_storey(space) ==
    IF Truthy(space.custom_storey) THEN space.custom_storey ELSE space.storey_name

props(space, fkey) ==
    [room_key       |-> fkey,
     name           |-> space.Name,
     long_name      |-> space.LongName,
     globalid       |-> space.GlobalId,
     type           |-> space.ObjectType,
     storey         |-> final_storey(space),
     area           |-> IF Truthy(space.area) THEN float(space.area) ELSE None,
     is_external    |-> space.is_external,
     category_it    |-> space.category_it,
     category_en    |-> category_en(space.category_it),
     all_properties |-> space.psets]

Placeholder == <<"P", "l", "a", "c", "e", "h", "o", "l", "d", "e", "r">>

\* a node as MERGE creates it: only the room_key is set
NewRoom(key) ==
    [room_key |-> key, name |-> None, long_name |-> None, globalid |-> None,
     type |-> None, storey |-> None, area |-> None, is_external |-> None,
     category_it |-> None, category_en |-> None, all_properties |-> None]

\* MERGE (r:Room {room_key: $room_key}): the node with that key, created
\* when there is none
Merge(g, key) ==
    [k \in DOMAIN g \cup {key} |-> IF k \in DOMAIN g THEN g[k] ELSE NewRoom(key)]

\* the upsert of a space: MERGE, then SET of the ten attributes
UpsertRoom(g, p) ==
    [Merge(g, p.room_key) EXCEPT ![p.room_key] = p]

\* the upsert of a placeholder: MERGE, then SET r.type = 'Placeholder'
UpsertPlaceholder(g, key) ==
    [Merge(g, key) EXCEPT ![key].type = Placeholder]

(***************************************************************************)
(* llm_router_tool.LLMRouterTool                                           *)
(***************************************************************************)

\* any(kw in q for kw in kws)
ContainsAny(kws, q) == \E n \in 1..Len(kws) : Contains(kws[n], q)

structural_kw == <<
    <<"c", "o", "n", "n", "e", "c", "t", "e", "d", " ", "t", "o">>,
    <<"o", "n", " ", "t", "h", "e", " ", "s", "a", "m", "e", " ", "f", "l", "o", "o", "r">>,
    <<"n", "e", "x", "t", " ", "t", "o">>,
    <<"a", "d", "j", "a", "c", "e", "n", "t">>,
    <<"c", "o", "n", "n", "e", "c", "t", "e", "d">>
>>
timeseries_kw == <<
    <<"t", "e", "m", "p", "e", "r", "a", "t", "u", "r", "e">>,
    <<"h", "i", "s", "t", "o", "r", "y">>,
    <<"v", "a", "l", "u", "e">>,
    <<"a", "v", "g">>,
    <<"a", "v", "e", "r", "a", "g", "e">>,
    <<"m", "i", "n">>,
    <<"m", "a", "x">>,
    <<"r", "e", "a", "d", "i", "n", "g">>
>>

\* A slip: the time-series keywords tested before the structural ones
intent_TimeSeriesFirst(natural_language_query) ==
    LET q == lower(natural_language_query)
    IN  IF ContainsAny(timeseries_kw, q) THEN "time-series"
        ELSE IF ContainsAny(structural_kw, q) THEN "structural"
        ELSE "ambiguous"

\* the branch ask_building_data takes: the two `if any(...)` in order, then
\* the default
intent(natural_language_query) ==
    LET q == lower(natural_language_query)
    IN  IF ContainsAny(structural_kw, q) THEN "structural"
        ELSE IF ContainsAny(timeseries_kw, q) THEN "time-series"
        ELSE "ambiguous"

\* s.startswith(p), s.endswith(p)
StartsWith(s, p) == Len(p) <= Len(s) /\ SubSeq(s, 1, Len(p)) = p
EndsWith(s, p) == Len(p) <= Len(s) /\ SubSeq(s, Len(s) - Len(p) + 1, Len(s)) = p
DropFirst(s, n) == SubSeq(s, n + 1, Len(s))
DropLast(s, n) == SubSeq(s, 1, Len(s) - n)

\* the character U+0060, which a string literal here cannot hold
Backtick == "<backtick>"

FenceCypher == <<Backtick, Backtick, Backtick, "c", "y", "p", "h", "e", "r", "\n">>
FenceFlux == <<Backtick, Backtick, Backtick, "f", "l", "u", "x", "\n">>
FenceBare == <<Backtick, Backtick, Backtick, "\n">>
FenceEnd == <<"\n", Backtick, Backtick, Backtick>>

\* re.sub(r"^<3 backticks>(cypher|flux)?\n", '', s)
SubOpeningFence(s) ==
    IF StartsWith(s, FenceCypher) THEN DropFirst(s, Len(FenceCypher))
    ELSE IF StartsWith(s, FenceFlux) THEN DropFirst(s, Len(FenceFlux))
    ELSE IF StartsWith(s, FenceBare) THEN DropFirst(s, Len(FenceBare))
    ELSE s

\* re.sub(r"\n<3 backticks>$", '', s), for s without a trailing newline
SubClosingFence(s) ==
    IF EndsWith(s, FenceEnd) THEN DropLast(s, Len(FenceEnd)) ELSE s

\* the tail of ask_llm_for_query: fences cleaned, text stripped
CleanFences(text) == strip(SubClosingFence(SubOpeningFence(strip(text))))

\* the first entry of data['output'] that is a dict with a 'content' key
RECURSIVE FirstContent(_)
FirstContent(output) ==
    IF output = <<>> THEN None
    ELSE IF Head(output).has_content THEN Head(output).content
    ELSE FirstContent(Tail(output))

\* an exception leaving the call
Raised == <<"~raise~">>

\* the text ask_llm_for_query takes out of the decoded body, before the
\* fallback: None when the shape gives none, Raised for the IndexError of
\* data['choices'][0] on an empty list
ShapeText(data) ==
    IF data.shape = "result" THEN data.result
    ELSE IF data.shape = "output" THEN FirstContent(data.output)
    ELSE IF data.shape = "choices"
    THEN IF data.choices = <<>> THEN Raised
         ELSE IF data.choices[1].is_dict THEN data.choices[1].content
         ELSE None
    ELSE None

\* the request without resp.raise_for_status()
Raises_Never(reply) == FALSE

\* requests.post(...) fails or resp.raise_for_status() raises
Raises(reply) == reply.status # "ok"

\* ask_llm_for_query for a 2xx reply: the text returned, or Raised (also
\* for the AttributeError of None.strip())
ask_llm_for_query(reply) ==
    LET shaped == ShapeText(reply.data)
        text == IF shaped # None THEN shaped ELSE reply.data.text
    IN  IF text = None \/ text = Raised THEN Raised ELSE CleanFences(text)

\* str.replace(old, new): every non-overlapping occurrence, left to right
RECURSIVE Replace(_, _, _)
Replace(s, old, new) ==
    IF Len(s) < Len(old) THEN s
    ELSE IF StartsWith(s, old) THEN new \o Replace(DropFirst(s, Len(old)), old, new)
    ELSE <<s[1]>> \o Replace(Tail(s), old, new)

bucket == <<"b", "u", "c", "k", "e", "t">>

\* A slip: only the first occurrence of the placeholder is replaced
RECURSIVE ReplaceFirst(_, _, _)
ReplaceFirst(s, old, new) ==
    IF Len(s) < Len(old) THEN s
    ELSE IF StartsWith(s, old) THEN new \o DropFirst(s, Len(old))
    ELSE <<s[1]>> \o ReplaceFirst(Tail(s), old, new)
flux_query_FirstOnly(text, influx_bucket) ==
    IF Contains(bucket, text) /\ Truthy(influx_bucket)
    THEN ReplaceFirst(text, bucket, <<"\"">> \o influx_bucket \o <<"\"">>)
    ELSE text

\* the Flux text handed to _run_flux: the placeholder bucket replaced by the
\* quoted bucket name when one is configured
flux_query(text, influx_bucket) ==
    IF Contains(bucket, text) /\ Truthy(influx_bucket)
    THEN Replace(text, bucket, <<"\"">> \o influx_bucket \o <<"\"">>)
    ELSE text

\* rows[0].get('room_key') or next(iter(rows[0].values()), None), a row
\* being the sequence of its (column, value) pairs
RECURSIVE GetColumn(_, _)
GetColumn(row, col) ==
    IF row = <<>> THEN None
    ELSE IF Head(row)[1] = col THEN Head(row)[2]
    ELSE GetColumn(Tail(row), col)
room_key_of(row) ==
    IF Truthy(GetColumn(row, <<"r", "o", "o", "m", "_", "k", "e", "y">>)) THEN GetColumn(row, <<"r", "o", "o", "m", "_", "k", "e", "y">>)
    ELSE IF row = <<>> THEN None
    ELSE row[1][2]

(***************************************************************************)
(* umarell_tool.Tools: the sensor-config cache                             *)
(***************************************************************************)

\* the reload window of _load_sensor_config, in seconds
CacheWindow == 300

SecondsPerDay == 86400

\* timedelta.seconds of a difference of d seconds: the seconds component
\* of the normalised (days, seconds) pair, between 0 and 86399
timedelta_seconds(d) == d % SecondsPerDay

\* self._sensor_config_cache and self._sensor_config_load_time of a new
\* Tools object
NoConfig == "None"
NoLoadTime == -1

\* what open(config_path) and json.load find at the four config_paths, in
\* the order tried: a file that is missing, that cannot be opened or
\* decoded (an OSError or UnicodeDecodeError), that is not JSON, or that
\* holds the config "A" or the config "E"
FileSystems ==
    {<<"missing", "missing", "missing", "missing">>,
     <<"A", "missing", "missing", "missing">>,
     <<"missing", "E", "missing", "missing">>,
     <<"missing", "missing", "missing", "A">>,
     <<"missing", "bad_json", "A", "missing">>,
     <<"unreadable", "A", "missing", "missing">>}

\* the loop over config_paths: the first file found decides
RECURSIVE ReadConfigPaths(_, _)
ReadConfigPaths(fs, i) ==
    IF i > Len(fs) THEN [kind |-> "error", id |-> "not_found"]
    ELSE IF fs[i] = "missing" THEN ReadConfigPaths(fs, i + 1)
    ELSE IF fs[i] = "bad_json" THEN [kind |-> "error", id |-> "invalid_json"]
    ELSE IF fs[i] = "unreadable" THEN [kind |-> "raised", id |-> "OSError"]
    ELSE [kind |-> "config", id |-> fs[i]]

\* _load_sensor_config with the cache fields, the clock and the files as
\* they are: what it returns, the cache fields it leaves, and whether it
\* returned the cache without opening a file
load_sensor_config(cache, load_time, now_, fs) ==
    IF /\ cache # NoConfig
       /\ load_time # NoLoadTime
       /\ timedelta_seconds(now_ - load_time) < CacheWindow
    THEN [ret |-> [kind |-> "config", id |-> cache],
          cache |-> cache, load_time |-> load_time, cached |-> TRUE]
    ELSE LET r == ReadConfigPaths(fs, 1)
         IN  IF r.kind = "config"
             THEN [ret |-> r, cache |-> r.id, load_time |-> now_, cached |-> FALSE]
             ELSE [ret |-> r, cache |-> cache, load_time |-> load_time, cached |-> FALSE]

(***************************************************************************)
(* umarell_tool.Tools.inspect_zone_metrics: the data path                  *)
(***************************************************************************)

\* measurement_aliases, in declaration order
measurement_aliases == <<
    [alias |-> <<"t", "e", "m", "p">>, name |-> <<"t", "e", "m", "p", "e", "r", "a", "t", "u", "r", "e">>],
    [alias |-> <<"t", "e", "m", "p", "e", "r", "a", "t", "u", "r", "a">>, name |-> <<"t", "e", "m", "p", "e", "r", "a", "t", "u", "r", "e">>],
    [alias |-> <<"a", "i", "r">>, name |-> <<"c", "o", "2">>],
    [alias |-> <<"a", "i", "r", "_", "q", "u", "a", "l", "i", "t", "y">>, name |-> <<"c", "o", "2">>],
    [alias |-> <<"a", "i", "r", " ", "q", "u", "a", "l", "i", "t", "y">>, name |-> <<"c", "o", "2">>],
    [alias |-> <<"c", "a", "r", "b", "o", "n", " ", "d", "i", "o", "x", "i", "d", "e">>, name |-> <<"c", "o", "2">>],
    [alias |-> <<"u", "m", "i", "d", "i", "t">> \o <<"a-grave">>, name |-> <<"h", "u", "m", "i", "d", "i", "t", "y">>],
    [alias |-> <<"h", "u", "m", "i", "d">>, name |-> <<"h", "u", "m", "i", "d", "i", "t", "y">>]
>>

\* measurement_aliases.get(measurement_type_lower, measurement_type_lower)
\* of measurement_type.lower().strip()
measurement_normalized(measurement_type) ==
    LET m == strip(lower(measurement_type))
        hits == {n \in 1..Len(measurement_aliases) : measurement_aliases[n].alias = m}
    IN  IF hits = {} THEN m
        ELSE measurement_aliases[CHOOSE n \in hits : TRUE].name

\* analysis_goal.lower().strip() if analysis_goal else "report"
analysis_goal_lower(analysis_goal) ==
    IF Truthy(analysis_goal) THEN strip(lower(analysis_goal)) ELSE <<"r", "e", "p", "o", "r", "t">>

\* the sensor configs a file can hold.  Config "A" maps four rooms, one in
\* each accepted shape: a mapping of sensor type to sensor id, a single
\* sensor id, a list of sensor ids, and an empty mapping.  Config "E" is
\* the empty object.
Sensors(shape, items) == [shape |-> shape, items |-> items]
NoSensors == Sensors("dict", <<>>)
room_to_sensor_map_A ==
    [k \in {K_Room101, K_Lab7, K_Office, K_g1} |->
        IF k = K_Room101
        THEN Sensors("dict", <<[type |-> <<"T", "e", "m", "p", "e", "r", "a", "t", "u", "r", "e">>, id |-> <<"t", "1", "0", "1">>],
                               [type |-> <<"c", "o", "2">>, id |-> <<"c", "1", "0", "1">>]>>)
        ELSE IF k = K_Lab7
        THEN Sensors("str", <<[type |-> <<>>, id |-> <<"t", "e", "m", "p", "e", "r", "a", "t", "u", "r", "e", "_", "l", "a", "b", "7">>]>>)
        ELSE IF k = K_Office
        THEN Sensors("list", <<[type |-> <<>>, id |-> <<"h", "u", "m", "_", "o", "f", "f">>],
                               [type |-> <<>>, id |-> <<"T", "e", "m", "p", "e", "r", "a", "t", "u", "r", "e", "-", "o", "f", "f">>]>>)
        ELSE NoSensors]

\* sensor_config.get('room_to_sensor_map', {}).get(room_id, {})
room_to_sensor_map_get(config, room_id) ==
    IF config = "A" /\ room_id \in DOMAIN room_to_sensor_map_A
    THEN room_to_sensor_map_A[room_id]
    ELSE NoSensors

\* a test that takes every sensor for a sensor of the requested type
matches_measurement_Any(m, text) == TRUE

\* measurement_normalized in sensor_type.lower()  (in sensors.lower(), in
\* sensor_id.lower())
matches_measurement(m, text) == Contains(m, lower(text))

\* the sensor the loop of step 2 keeps for one room: the id of the first
\* entry that matches, by its type for a mapping and by its id for a
\* single id or a list of ids; None when no entry matches
RECURSIVE FirstMatching(_, _, _)
FirstMatching(m, shape, items) ==
    IF items = <<>> THEN None
    ELSE IF matches_measurement(m, IF shape = "dict" THEN Head(items).type
                                   ELSE Head(items).id)
    THEN Head(items).id
    ELSE FirstMatching(m, shape, Tail(items))

\* room_data: the records with a truthy room_key, keyed by room_key; a key
\* met again keeps its first position
RECURSIVE room_data(_)
room_data(rooms) ==
    IF rooms = <<>> THEN <<>>
    ELSE LET before == room_data(SubSeq(rooms, 1, Len(rooms) - 1))
             key == rooms[Len(rooms)]
         IN  IF ~Truthy(key) \/ (\E i \in 1..Len(before) : before[i] = key)
             THEN before
             ELSE Append(before, key)

\* rooms_with_sensors: the rooms of room_data with a matching sensor, in
\* the order of room_data, each with the sensor id kept
RECURSIVE rooms_with_sensors_of(_, _, _)
rooms_with_sensors_of(data, config, m) ==
    IF data = <<>> THEN <<>>
    ELSE LET sensors == room_to_sensor_map_get(config, Head(data))
             sensor_id == FirstMatching(m, sensors.shape, sensors.items)
             rest == rooms_with_sensors_of(Tail(data), config, m)
         IN  IF sensor_id = None THEN rest
             ELSE <<[room_id |-> Head(data), sensor_id |-> sensor_id]>> \o rest

\* the latest value of a sensor: an int, a string, or no value at all
IntValue(v) == [kind |-> "int", v |-> v]
StrValue == [kind |-> "str", v |-> 0]
NoValue == [kind |-> "none", v |-> 0]
Values == {NoValue, StrValue, IntValue(-3), IntValue(0), IntValue(20),
           IntValue(22), IntValue(24)}

\* a test that takes the value 0 for a missing value
has_data_Truthy(value) == value # NoValue /\ value # IntValue(0)

\* sensor_data.get("value") is not None
has_data(value) == value # NoValue

\* isinstance(value, (int, float))
is_number(value) == value.kind = "int"

\* results: one entry for each room of rooms_with_sensors, with the value
\* sensor_values holds for its sensor
results_of(with_sensors, values) ==
    [i \in 1..Len(with_sensors) |->
        [room_id |-> with_sensors[i].room_id,
         sensor_id |-> with_sensors[i].sensor_id,
         value |-> values[with_sensors[i].sensor_id],
         has_data |-> has_data(values[with_sensors[i].sensor_id])]]

IsWithData(r) == r.has_data
IsWithoutData(r) == ~r.has_data
results_with_data(results) == SelectSeq(results, IsWithData)
results_without_data(results) == SelectSeq(results, IsWithoutData)

\* sort keys: a number, or an infinity (inf = -1 or 1)
Key(inf, v) == [inf |-> inf, v |-> v]
KeyLess(a, b) == a.inf < b.inf \/ (a.inf = b.inf /\ a.v < b.v)

\* a key that ranks a value that is not a number as 0, as the report sort does
max_key_Zero(value) == IF is_number(value) THEN Key(0, value.v) ELSE Key(0, 0)

\* x["value"] if isinstance(x["value"], (int, float)) else float('-inf')
max_key(value) == IF is_number(value) THEN Key(0, value.v) ELSE Key(-1, 0)

\* x["value"] if isinstance(x["value"], (int, float)) else float('inf')
min_key(value) == IF is_number(value) THEN Key(0, value.v) ELSE Key(1, 0)

\* x["value"] if isinstance(x["value"], (int, float)) else 0
report_key(value) == IF is_number(value) THEN Key(0, value.v) ELSE Key(0, 0)

\* max(results_with_data, key=...): the first entry whose key none exceeds
py_max(rs) ==
    LET best[i \in 1..Len(rs)] ==
            IF i = 1 THEN 1
            ELSE IF KeyLess(max_key(rs[best[i - 1]].value), max_key(rs[i].value))
            THEN i ELSE best[i - 1]
    IN  rs[best[Len(rs)]]

\* min(results_with_data, key=...): the first entry whose key none undercuts
py_min(rs) ==
    LET best[i \in 1..Len(rs)] ==
            IF i = 1 THEN 1
            ELSE IF KeyLess(min_key(rs[i].value), min_key(rs[best[i - 1]].value))
            THEN i ELSE best[i - 1]
    IN  rs[best[Len(rs)]]

IsNumberResult(r) == is_number(r.value)

\* the values of all entries with data, a value that is not a number
\* counting as 0
numeric_values_All(rs) == [i \in 1..Len(rs) |-> rs[i].value.v]

\* [r["value"] for r in results_with_data if isinstance(r["value"], (int, float))]
numeric_values(rs) ==
    LET nums == SelectSeq(rs, IsNumberResult)
    IN  [i \in 1..Len(nums) |-> nums[i].value.v]

\* sum(), min() and max() of a list of numbers
RECURSIVE sum(_)
sum(ns) == IF ns = <<>> THEN 0 ELSE Head(ns) + sum(Tail(ns))
min(ns) == CHOOSE x \in {ns[i] : i \in 1..Len(ns)} : \A i \in 1..Len(ns) : x <= ns[i]
max(ns) == CHOOSE x \in {ns[i] : i \in 1..Len(ns)} : \A i \in 1..Len(ns) : x >= ns[i]

\* f"{num / den:.2f}" as a number of hundredths: the quotient rounded to
\* the nearest hundredth, a tie to the even one
format_2f(num, den) ==
    LET floor_ == (100 * num) \div den
        rem == 100 * num - floor_ * den
    IN  IF 2 * rem < den THEN floor_
        ELSE IF 2 * rem > den THEN floor_ + 1
        ELSE IF floor_ % 2 = 0 THEN floor_
        ELSE floor_ + 1

\* sorted(results_with_data, key=..., reverse=True): by descending key,
\* entries of equal key in their original order
RECURSIVE sorted_results(_)
sorted_results(rs) ==
    IF rs = <<>> THEN <<>>
    ELSE LET init == sorted_results(SubSeq(rs, 1, Len(rs) - 1))
             x == rs[Len(rs)]
             k == Cardinality({i \in 1..Len(init) :
                      ~KeyLess(report_key(init[i].value), report_key(x.value))})
         IN  SubSeq(init, 1, k) \o <<x>> \o SubSeq(init, k + 1, Len(init))

\* what a toolkit operation returns: a message of some kind with the
\* figures it reports, or (kind "raised") an exception that leaves the call
Message(kind) ==
    [kind |-> kind, room |-> None, value |-> NoValue, analyzed |-> 0,
     average |-> 0, lo |-> 0, hi |-> 0, rows |-> <<>>,
     with_sensors |-> 0, without_data |-> 0]

\* step 4 of inspect_zone_metrics: the answer for the goal, from the rooms
\* with a matching sensor and the values the time-series store returned
analyze(goal, with_sensors, values) ==
    LET results == results_of(with_sensors, values)
        with == results_with_data(results)
        without == results_without_data(results)
    IN  IF with = <<>> THEN Message("no_data")
        ELSE IF goal = <<"m", "a", "x">>
        THEN [Message("max") EXCEPT !.room = py_max(with).room_id,
                                    !.value = py_max(with).value,
                                    !.analyzed = Len(with)]
        ELSE IF goal = <<"m", "i", "n">>
        THEN [Message("min") EXCEPT !.room = py_min(with).room_id,
                                    !.value = py_min(with).value,
                                    !.analyzed = Len(with)]
        ELSE IF goal = <<"a", "v", "g">>
        THEN LET nums == numeric_values(with)
             IN  IF nums # <<>>
                 THEN [Message("avg") EXCEPT !.average = format_2f(sum(nums), Len(nums)),
                                             !.lo = format_2f(min(nums), 1),
                                             !.hi = format_2f(max(nums), 1),
                                             !.analyzed = Len(nums)]
                 ELSE Message("no_numeric")
        ELSE LET sorted == sorted_results(with)
             IN  [Message("report") EXCEPT
                     !.rows = [i \in 1..Len(sorted) |->
                                  [room_id |-> sorted[i].room_id, value |-> sorted[i].value]],
                     !.with_sensors = Len(with_sensors),
                     !.analyzed = Len(with),
                     !.without_data = Len(without)]

(***************************************************************************)
(* umarell_tool.Tools: the text of the queries                             *)
(***************************************************************************)

\* the characters _sanitize_string removes: ' " \ ; and U+0060
DangerousChars == {"'", "\"", "\\", ";", Backtick}

\* the number of characters _sanitize_string keeps
SanitizeLimit == 100

\* s[:n]
Slice(s, n) == SubSeq(s, 1, IF Len(s) < n THEN Len(s) ELSE n)

\* _sanitize_string(value)
sanitize_string(value) ==
    IF value = None
    THEN <<>>
    ELSE Slice(SelectSeq(str(value), LAMBDA c : c \notin DangerousChars),
               SanitizeLimit)

\* one entry of where_clauses: the branch that appended it, the text it
\* interpolates (empty for the literal TRUE) and the attributes it filters on
Clause(kind, value, attributes) ==
    [kind |-> kind, value |-> value, attributes |-> attributes]

\* query_topology: where_clauses for the three optional filters
topology_where_clauses(category, floor, name_contains) ==
    (IF Truthy(category)
     THEN <<Clause("category", lower(sanitize_string(category)),
                   {"category_en", "category_it", "type"})>>
     ELSE <<>>)
    \o (IF Truthy(floor)
        THEN <<Clause("floor", sanitize_string(floor), {"storey", "floor"})>>
        ELSE <<>>)
    \o (IF Truthy(name_contains)
        THEN <<Clause("name", lower(sanitize_string(name_contains)),
                      {"name", "longname"})>>
        ELSE <<>>)

\* the attributes query_topology returns and orders by
topology_returned == {"room_key", "name", "longname", "category_en",
                      "category_it", "storey", "area", "type"}

\* check_sensor_config: the WHERE condition on safe_name
sensor_config_where_clauses(name) ==
    <<Clause("room", lower(sanitize_string(name)),
             {"name", "longname", "room_key", "category_en", "category_it"})>>

\* the attributes check_sensor_config returns
sensor_config_returned == {"room_key", "name", "longname", "storey", "category_en"}

whole_keywords == <<<<"w", "h", "o", "l", "e">>, <<"e", "n", "t", "i", "r", "e">>, <<"a", "l", "l">>, <<"t", "u", "t", "t", "o">>, <<"i", "n", "t", "e", "r", "o">>>>

floor_words == <<<<"f", "l", "o", "o", "r">>, <<"p", "i", "a", "n", "o">>, <<"s", "t", "o", "r", "e", "y">>, <<"l", "e", "v", "e", "l">>>>

category_keywords == <<
    <<"o", "f", "f", "i", "c", "e">>, <<"u", "f", "f", "i", "c", "i", "o">>, <<"m", "e", "e", "t", "i", "n", "g">>, <<"r", "i", "u", "n", "i", "o", "n">>,
    <<"b", "a", "t", "h", "r", "o", "o", "m">>, <<"b", "a", "g", "n", "o">>, <<"k", "i", "t", "c", "h", "e", "n">>, <<"c", "u", "c", "i", "n", "a">>,
    <<"c", "o", "r", "r", "i", "d", "o", "r">>, <<"c", "o", "r", "r", "i", "d", "o", "i", "o">>, <<"s", "t", "o", "r", "a", "g", "e">>, <<"m", "a", "g", "a", "z", "z", "i", "n", "o">>>>

\* s[i:].startswith(p)
StartsAt(s, i, p) ==
    i + Len(p) - 1 <= Len(s) /\ SubSeq(s, i, i + Len(p) - 1) = p

\* the index after the run of characters of cs that starts at index i
RECURSIVE AfterRun(_, _, _)
AfterRun(s, i, cs) ==
    IF i <= Len(s) /\ s[i] \in cs THEN AfterRun(s, i + 1, cs) ELSE i

\* (?:floor|piano|storey|level)\s*(\d+|[a-z]) matched at index i: group 1,
\* None when the pattern does not match there
floor_group_at(s, i) ==
    LET ws == {w \in 1..Len(floor_words) : StartsAt(s, i, floor_words[w])}
    IN  IF ws = {}
        THEN None
        ELSE LET w == CHOOSE x \in ws : \A y \in ws : x <= y
                 j == AfterRun(s, i + Len(floor_words[w]), Whitespace)
                 k == AfterRun(s, j, Digits)
             IN  IF k > j THEN SubSeq(s, j, k - 1)
                 ELSE IF j <= Len(s) /\ s[j] \in LowerSet THEN <<s[j]>>
                 ELSE None

\* re.search(...) on zone_lower: group 1 of the leftmost match, None when
\* there is no match
floor_match(s) ==
    LET hits == {i \in 1..Len(s) : floor_group_at(s, i) # None}
    IN  IF hits = {}
        THEN None
        ELSE floor_group_at(s, CHOOSE i \in hits : \A j \in hits : i <= j)

\* the first keyword of kws contained in s, None when there is none
first_keyword(kws, s) ==
    LET hits == {n \in 1..Len(kws) : Contains(kws[n], s)}
    IN  IF hits = {}
        THEN None
        ELSE kws[CHOOSE n \in hits : \A m \in hits : n <= m]

\* inspect_zone_metrics: where_clauses for a zone description
zone_where_clauses(zone_description) ==
    LET zone_lower == lower(zone_description)
        floor_num == floor_match(zone_lower)
        kw == first_keyword(category_keywords, zone_lower)
        parsed ==
            (IF floor_num # None
             THEN <<Clause("floor", floor_num, {"storey"})>>
             ELSE <<>>)
            \o (IF kw # None
                THEN <<Clause("category", sanitize_string(kw),
                              {"category_en", "category_it"})>>
                ELSE <<>>)
    IN  IF ContainsAny(whole_keywords, zone_lower)
        THEN <<Clause("TRUE", <<>>, {})>>
        ELSE IF parsed = <<>>
        THEN <<Clause("fuzzy", lower(sanitize_string(zone_description)),
                      {"name", "longname", "category_en", "category_it",
                       "storey"})>>
        ELSE parsed

\* the attributes inspect_zone_metrics returns and orders by
zone_returned == {"room_key", "name", "longname", "storey", "category_en"}

\* re.match(r'^\d+[hdwm]$', s) on a text without trailing whitespace
IsTimeRange(s) ==
    /\ Len(s) >= 2
    /\ \A i \in 1..(Len(s) - 1) : s[i] \in Digits
    /\ s[Len(s)] \in {"h", "d", "w", "m"}

\* time_range_clean without the strip
time_range_clean_Unstripped(time_range) ==
    IF Truthy(time_range) /\ IsTimeRange(time_range)
    THEN time_range
    ELSE <<"1", "h">>

\* time_range_clean, the start of the range of the Flux query
time_range_clean(time_range) ==
    LET stripped == IF Truthy(time_range) THEN strip(time_range) ELSE <<"1", "h">>
    IN  IF IsTimeRange(stripped) THEN stripped ELSE <<"1", "h">>

\* the attributes the prompts of ask_llm_for_query tell the model a Room has
prompt_attributes == {"room_key", "name", "long_name", "globalid"}

(***************************************************************************)
(* Bounds                                                                  *)
(***************************************************************************)
MaxTextLen == 3
MaxDescWords == 2
MaxKeys == 2
MaxSpaces == 2
MaxRuns == 2
MaxQueryWords == 2
MaxLoads == 2
MaxRooms == 3
MaxZoneWords == 2

(***************************************************************************)
(* State                                                                   *)
(***************************************************************************)
VARIABLES
    n_text,     \* normalize: the input text
    n_once,     \* normalize(text), None before the first call
    n_twice,    \* normalize(normalize(text)), None before the second call
    c_it,       \* category translation: the Italian description
    c_en,       \* the English label assigned, None when absent
    c_done,     \* TRUE once the translation has run
    room_keys,    \* import: the key set of room_to_sensor_map
    spaces,       \* import: the IfcSpace entities of the model, in file order
    graph,        \* the graph store: room_key -> Room node
    matched_keys, \* import: keys matched to a space in the current run
    placed_keys,  \* import: keys whose placeholder upsert was issued
    i_pc,         \* import: "idle" between runs, "running" inside main
    i_idx,        \* import: index of the next space of the loop
    key_order,    \* import: iteration order of room_keys in the current run
    runs,         \* import: number of completed runs
    log,          \* import: the bag of upsert statements issued by the current run
    resolved,     \* import: found_key and final_key of each space processed
    first_graph,  \* the graph store as the first run left it
    q_text,       \* router: natural_language_query
    room_name,    \* router: the room_name argument
    influx,       \* router: influx_query_api configured, influx_bucket
    r_pc,         \* router: position inside ask_building_data
    r_route,      \* router: the branch taken
    calls,        \* router: the external calls made, in order
    llm_text,     \* router: the text the last ask_llm_for_query returned
    sensor_key,   \* router: the sensor key found for the room
    rows,         \* router: the rows the room lookup returned
    r_out,        \* router: how the call ended
    cfg_cache,      \* toolkit: _sensor_config_cache, the config held
    cfg_load_time,  \* toolkit: _sensor_config_load_time, in seconds
    now,            \* toolkit: the wall clock, in seconds
    cfg_ret,        \* toolkit: what the last _load_sensor_config did
    cfg_calls,      \* toolkit: number of _load_sensor_config calls made
    t_op,           \* toolkit: the operation called
    t_args,         \* toolkit: its arguments
    t_pc,           \* toolkit: position inside the operation
    driver,         \* toolkit: the graph driver of this call
    client,         \* toolkit: the time-series client of this call
    t_log,          \* toolkit: the external events of this call, in order
    rooms,          \* toolkit: the room_key of each record the graph returned
    rooms_with_sensors, \* toolkit: the rooms with a matching sensor
    sensor_values,  \* toolkit: sensor id -> latest value returned
    t_out,          \* toolkit: what the operation returned
    g_op,           \* query text: the operation called
    g_args,         \* query text: its text arguments
    g_pc,           \* query text: position inside the operation
    where_clauses,  \* query text: the conditions of cypher_query, in order
    range_start     \* query text: time_range_clean of flux_query

normVars == <<n_text, n_once, n_twice>>
catVars == <<c_it, c_en, c_done>>
importVars == <<room_keys, spaces, graph, matched_keys, placed_keys, i_pc,
                i_idx, key_order, runs, log, resolved, first_graph>>
routerVars == <<q_text, room_name, influx, r_pc, r_route, calls, llm_text,
                sensor_key, rows, r_out>>
configVars == <<cfg_cache, cfg_load_time, now, cfg_ret, cfg_calls>>
toolVars == <<t_op, t_args, t_pc, driver, client, t_log, rooms,
              rooms_with_sensors, sensor_values, t_out>>
queryVars == <<g_op, g_args, g_pc, where_clauses, range_start>>
vars == <<normVars, catVars, importVars, routerVars, configVars, toolVars, queryVars>>

RouterIdle ==
    /\ q_text = <<>>
    /\ room_name = None
    /\ influx = [api |-> FALSE, bucket |-> None]
    /\ r_pc = "off"
    /\ r_route = "none"
    /\ calls = <<>>
    /\ llm_text = None
    /\ sensor_key = None
    /\ rows = <<>>
    /\ r_out = "none"

\* a new Tools object: nothing cached, no _load_sensor_config call made
NoRet == [kind |-> "none", id |-> "none", cached |-> FALSE, had_cache |-> FALSE, elapsed |-> 0]
ConfigIdle ==
    /\ cfg_cache = NoConfig
    /\ cfg_load_time = NoLoadTime
    /\ now = 0
    /\ cfg_ret = NoRet
    /\ cfg_calls = 0

NoArgs == [given |-> FALSE, measurement_type |-> <<>>, analysis_goal |-> None]
QueryIdle ==
    /\ g_op = "none"
    /\ g_args = [category |-> None, floor |-> None, name_contains |-> None,
                 room_name |-> None, zone_description |-> None, time_range |-> None]
    /\ g_pc = "off"
    /\ where_clauses = <<>>
    /\ range_start = None

ToolIdle ==
    /\ t_op = "none"
    /\ t_args = NoArgs
    /\ t_pc = "off"
    /\ driver = "none"
    /\ client = "none"
    /\ t_log = <<>>
    /\ rooms = <<>>
    /\ rooms_with_sensors = <<>>
    /\ sensor_values = <<>>
    /\ t_out = Message("none")

NormIdle == n_text = None /\ n_once = None /\ n_twice = None
CatIdle == c_it = None /\ c_en = None /\ c_done = FALSE

(***************************************************************************)
(* Specification Spec: repeated runs of ifc_to_graph.main against one      *)
(* model and one sensor config                                             *)
(***************************************************************************)

\* the models: lists of distinct entities (model.by_type('IfcSpace'))
Models ==
    UNION {{m \in [1..n -> SpaceUniverse] : \A i, j \in 1..n : i # j => m[i] # m[j]}
           : n \in 0..MaxSpaces}

\* the configs: key sets of room_to_sensor_map
Configs == {c \in SUBSET KeyUniverse : Cardinality(c) <= MaxKeys}

\* the iteration orders of a set
Orders(S) ==
    {o \in [1..Cardinality(S) -> S] : \A i, j \in 1..Cardinality(S) : i # j => o[i] # o[j]}

EmptyGraph == [k \in {} |-> NewRoom(k)]

ImportIdle ==
    /\ room_keys = {}
    /\ spaces = <<>>
    /\ graph = EmptyGraph
    /\ matched_keys = {}
    /\ placed_keys = {}
    /\ i_pc = "idle"
    /\ i_idx = 0
    /\ key_order = <<>>
    /\ runs = 0
    /\ log = EmptyBag
    /\ resolved = <<>>
    /\ first_graph = EmptyGraph

Init ==
    /\ room_keys \in Configs
    /\ spaces \in Models
    /\ graph = EmptyGraph
    /\ matched_keys = {}
    /\ placed_keys = {}
    /\ i_pc = "idle"
    /\ i_idx = 0
    /\ key_order = <<>>
    /\ runs = 0
    /\ log = EmptyBag
    /\ resolved = <<>>
    /\ first_graph = EmptyGraph
    /\ NormIdle
    /\ CatIdle
    /\ RouterIdle
    /\ ConfigIdle
    /\ ToolIdle
    /\ QueryIdle

\* session.run(cypher, props) for the space at index i, matched to found
SpaceStmt(fkey, i, found) ==
    [kind |-> "space", room_key |-> fkey, space |-> i, found |-> found]

\* session.run("MERGE ... SET r.type='Placeholder'", {'room_key': key})
PlaceholderStmt(key) ==
    [kind |-> "placeholder", room_key |-> key, space |-> 0, found |-> None]

\* main up to the loop: config and model are loaded, the key set gets the
\* iteration order it has in this process, matched_keys starts empty
StartRun ==
    /\ i_pc = "idle"
    /\ runs < MaxRuns
    /\ \E order \in Orders(room_keys) : key_order' = order
    /\ matched_keys' = {}
    /\ placed_keys' = {}
    /\ i_idx' = 1
    /\ log' = EmptyBag
    /\ resolved' = <<>>
    /\ i_pc' = "running"
    /\ UNCHANGED <<room_keys, spaces, graph, runs, first_graph, normVars, catVars, routerVars, configVars, toolVars, queryVars>>

\* one iteration of `for space in spaces`
ProcessSpace ==
    /\ i_pc = "running"
    /\ i_idx <= Len(spaces)
    /\ LET space == spaces[i_idx]
           found == found_key(key_order, space)
           fkey  == final_key(found, space.GlobalId)
       IN  IF HasKey(fkey)
           THEN /\ matched_keys' = IF Truthy(found) THEN matched_keys \cup {found}
                                   ELSE matched_keys
                /\ graph' = UpsertRoom(graph, props(space, fkey))
                /\ log' = log (+) SetToBag({SpaceStmt(fkey, i_idx, found)})
                /\ resolved' = Append(resolved, [found |-> found, final |-> fkey])
           ELSE /\ resolved' = Append(resolved, [found |-> found, final |-> fkey])
                /\ UNCHANGED <<matched_keys, graph, log>>
    /\ i_idx' = i_idx + 1
    /\ UNCHANGED <<room_keys, spaces, placed_keys, i_pc, key_order, runs,
                   first_graph, normVars, catVars, routerVars, configVars, toolVars, queryVars>>

\* A slip: a placeholder for every configured key
unmapped_keys_All == room_keys

\* room_keys - matched_keys
unmapped_keys == room_keys \ matched_keys

\* one iteration of `for key in room_keys - matched_keys`
PlaceholderStep ==
    /\ i_pc = "running"
    /\ i_idx > Len(spaces)
    /\ \E key \in unmapped_keys \ placed_keys :
        /\ graph' = UpsertPlaceholder(graph, key)
        /\ placed_keys' = placed_keys \cup {key}
        /\ log' = log (+) SetToBag({PlaceholderStmt(key)})
    /\ UNCHANGED <<room_keys, spaces, matched_keys, i_pc, i_idx, key_order,
                   runs, resolved, first_graph, normVars, catVars, routerVars, configVars, toolVars, queryVars>>

\* the end of main: the session and the driver are closed
FinishRun ==
    /\ i_pc = "running"
    /\ i_idx > Len(spaces)
    /\ unmapped_keys \ placed_keys = {}
    /\ i_pc' = "idle"
    /\ runs' = runs + 1
    /\ first_graph' = IF runs = 0 THEN graph ELSE first_graph
    /\ key_order' = <<>>
    /\ UNCHANGED <<room_keys, spaces, graph, matched_keys, placed_keys, i_idx,
                   log, resolved, normVars, catVars, routerVars, configVars, toolVars, queryVars>>

Next == StartRun \/ ProcessSpace \/ PlaceholderStep \/ FinishRun

Spec == Init /\ [][Next]_vars

\* a run has completed and the next has not started
RunComplete == i_pc = "idle" /\ runs >= 1

\* the statements of the current run
SpaceUpserts == {e \in BagToSet(log) : e.kind = "space"}
PlaceholderUpserts == {e \in BagToSet(log) : e.kind = "placeholder"}

\* C1: re-running the import against the same model and config leaves, after
\* every run, the same set of room records, each describing the same space
\* as after the first run, and no two records describing one space,
\* whichever order the key set is iterated in.
C1_RerunIdempotent ==
    RunComplete =>
        /\ DOMAIN graph = DOMAIN first_graph
        /\ \A k \in DOMAIN graph : graph[k].globalid = first_graph[k].globalid
        /\ \A k1, k2 \in DOMAIN graph :
              (k1 # k2 /\ graph[k1].globalid # None)
                  => graph[k1].globalid # graph[k2].globalid

\* C2: in a run, two different spaces that are not skipped are never written
\* under the same room_key, so the run writes as many room_keys as it has
\* non-skipped spaces.
C2_OneRecordPerSpace ==
    /\ \A e1, e2 \in SpaceUpserts : e1.space # e2.space => e1.room_key # e2.room_key
    /\ Cardinality({e.room_key : e \in SpaceUpserts}) = Cardinality({e.space : e \in SpaceUpserts})

\* the tests of the identity resolution, as the specification words them
C4_Passes(key, space) ==
    LET k  == normalize(key)
        c1 == normalize(str(space.LongName) \o <<" ">> \o str(space.Name))
        c2 == normalize(str(space.Name) \o <<" ">> \o str(space.LongName))
        exact  == \/ k = normalize(space.GlobalId)
                  \/ k = normalize(space.Name)
                  \/ k = normalize(space.LongName)
                  \/ k = c1
                  \/ k = c2
        inside == Contains(k, c1) \/ Contains(k, c2)
        around == Contains(c1, k) \/ Contains(c2, k)
    IN  exact \/ inside \/ around

\* the normalized key is a substring of the normalized long+short name
C4_InLongShort(key, space) ==
    Contains(normalize(key),
             normalize(str(space.LongName) \o <<" ">> \o str(space.Name)))

\* (both, computed once for each key and space)
C4_PassTable ==
    [key \in KeyUniverse |-> [space \in SpaceUniverse |-> C4_Passes(key, space)]]
C4_InLongShortTable ==
    [key \in KeyUniverse |-> [space \in SpaceUniverse |-> C4_InLongShort(key, space)]]

\* C3: every upsert statement issued carries a non-null room_key, and a
\* space for which no room_key can be determined (no non-empty key passes a
\* test and it has no global id) causes no upsert.
C3_UpsertHasRoomKey ==
    /\ \A e \in BagToSet(log) : e.room_key # None
    /\ \A i \in 1..Len(resolved) :
          (/\ ~Truthy(spaces[i].GlobalId)
           /\ \A key \in room_keys : Truthy(key) => ~C4_PassTable[key][spaces[i]])
              => \A e \in SpaceUpserts : e.space # i

\* a space without a global id and without a matching key was processed and
\* skipped, and a placeholder was upserted in the same run
C3_Witness ==
    /\ Len(resolved) >= 1
    /\ spaces[1] = Space4
    /\ resolved[1].final = None
    /\ SpaceUpserts = {}
    /\ PlaceholderUpserts # {}

\* C4: for a space, a key is chosen if and only if at least one key of the
\* config passes one of the three tests, and the key chosen passes one of
\* them; a key whose normalized form is a substring of the normalized
\* long-name/short-name concatenation makes the space matched.
C4_KeyChosenIffPasses ==
    \A i \in 1..Len(resolved) :
        LET passing == {key \in room_keys : C4_PassTable[key][spaces[i]]}
        IN  /\ (resolved[i].found # None) <=> (passing # {})
            /\ resolved[i].found # None => resolved[i].found \in passing
            /\ (\E key \in room_keys : C4_InLongShortTable[key][spaces[i]])
                   => resolved[i].found # None

\* the space "Room 101 Office" was matched to the key "Room 101" by
\* substring containment while another configured key passes no test
C4_Witness ==
    /\ room_keys = {K_Room101, K_Lab7}
    /\ Len(resolved) >= 1
    /\ spaces[1] = Space1
    /\ resolved[1].found = K_Room101

\* C5: when no key matches a space, a space with global id G is upserted
\* under exactly "ifc_auto_" followed by G, and a space without a global id
\* is skipped.
C5_FallbackKey ==
    \A i \in 1..Len(resolved) :
        (\A key \in room_keys : ~C4_PassTable[key][spaces[i]])
            => LET mine == {e \in SpaceUpserts : e.space = i}
                   G == spaces[i].GlobalId
               IN  IF Truthy(G)
                   THEN /\ Cardinality(mine) = 1
                        /\ \A e \in mine :
                              /\ CopiesIn(e, log) = 1
                              /\ e.room_key = <<"i", "f", "c", "_", "a", "u", "t", "o", "_">> \o G
                   ELSE mine = {}

\* in a second run, an unmatched space with a global id was upserted
\* under its fallback key and an unmatched space without one was skipped
C5_Witness ==
    /\ runs = 1
    /\ room_keys = {K_Lab7}
    /\ Len(resolved) = 2
    /\ spaces = <<Space3, Space4>>
    /\ {e.room_key : e \in SpaceUpserts} =
           {<<"i", "f", "c", "_", "a", "u", "t", "o", "_", "G", "3">>}

\* C6: when a run has completed, every configured key that no space was
\* upserted under has had exactly one placeholder upsert and exists in the
\* store as a placeholder, and a key that a space was matched to and
\* upserted under has had none.
C6_PlaceholderPerUnmatchedKey ==
    RunComplete =>
        \A key \in room_keys :
            LET matched == \E e \in SpaceUpserts : e.found = key /\ e.room_key = key
                count == CopiesIn(PlaceholderStmt(key), log)
            IN  IF matched THEN count = 0
                ELSE /\ count = 1
                     /\ key \in DOMAIN graph
                     /\ graph[key].type = Placeholder

\* a run completed in which one key was matched to a space and another key
\* matched none
C6_Witness ==
    /\ RunComplete
    /\ room_keys = {K_Room101, K_Lab7}
    /\ \E e \in SpaceUpserts : e.room_key = K_Room101
    /\ \E e \in PlaceholderUpserts : e.room_key = K_Lab7

(***************************************************************************)
(* Specification SpecNormalize: normalize applied once and then again      *)
(***************************************************************************)
NormAlphabet == {"a", "B", "7", "-", " ", "_"}

RECURSIVE TextsUpTo(_, _)
TextsUpTo(alphabet, n) ==
    IF n = 0 THEN {<<>>}
    ELSE LET shorter == TextsUpTo(alphabet, n - 1)
         IN  shorter \cup {<<c>> \o t : c \in alphabet, t \in {u \in shorter : Len(u) = n - 1}}

NormInputs == {None} \cup TextsUpTo(NormAlphabet, MaxTextLen)

InitNormalize ==
    /\ n_text \in NormInputs
    /\ n_once = None
    /\ n_twice = None
    /\ CatIdle
    /\ ImportIdle
    /\ RouterIdle
    /\ ConfigIdle
    /\ ToolIdle
    /\ QueryIdle

NormalizeOnce ==
    /\ n_once = None
    /\ n_once' = normalize(n_text)
    /\ UNCHANGED <<n_text, n_twice, catVars, importVars, routerVars, configVars, toolVars, queryVars>>

NormalizeAgain ==
    /\ n_once # None
    /\ n_twice = None
    /\ n_twice' = normalize(n_once)
    /\ UNCHANGED <<n_text, n_once, catVars, importVars, routerVars, configVars, toolVars, queryVars>>

NextNormalize == NormalizeOnce \/ NormalizeAgain

SpecNormalize == InitNormalize /\ [][NextNormalize]_vars

\* C7: normalize is idempotent: normalizing an already normalized text
\* gives the same text back, for every input including None and ''.
C7_NormalizeIdempotent == n_twice # None => n_twice = n_once

\* a mixed-case input with punctuation at both ends and a run inside was
\* normalized twice
C7_Witness ==
    /\ n_text = <<"-", "B", "_">>
    /\ n_once = <<"b">>
    /\ n_twice = <<"b">>

(***************************************************************************)
(* Specification SpecCategory: the category translation of one description *)
(***************************************************************************)
DescWords == {
    <<"U", "F", "F", "I", "C", "I">>,
    <<"U", "f", "f", "i", "c", "i">>,
    <<"D", "O", "C", "E", "N", "T", "I">>,
    <<"S", "A", "L", "A", " ", "R", "I", "U", "N", "I", "O", "N", "I">>,
    <<"D", "e", "p", "o", "s", "i", "t", "i">>,
    <<"L", "O", "C", "A", "L", "E", " ", "T", "E", "C", "N", "I", "C", "O">>,
    <<"l", "a", "b", "o", "r", "a", "t", "o", "r", "i", "o">>,
    <<"W", "C">>,
    <<"A", "U", "L", "A">>
}

\* descriptions of up to n words separated by single spaces
RECURSIVE Descriptions(_)
Descriptions(n) ==
    IF n = 1 THEN DescWords
    ELSE LET shorter == Descriptions(n - 1)
         IN  shorter \cup {d \o <<" ">> \o w : d \in shorter, w \in DescWords}

CatInputs == {None, <<>>} \cup Descriptions(MaxDescWords)

InitCategory ==
    /\ c_it \in CatInputs
    /\ c_en = None
    /\ c_done = FALSE
    /\ NormIdle
    /\ ImportIdle
    /\ RouterIdle
    /\ ConfigIdle
    /\ ToolIdle
    /\ QueryIdle

TranslateCategory ==
    /\ ~c_done
    /\ c_en' = category_en(c_it)
    /\ c_done' = TRUE
    /\ UNCHANGED <<c_it, normVars, importVars, routerVars, configVars, toolVars, queryVars>>

NextCategory == TranslateCategory

SpecCategory == InitCategory /\ [][NextCategory]_vars

\* the indices of the table terms contained in the upper-cased description
CatHits(d) ==
    IF ~Truthy(d) THEN {}
    ELSE {i \in 1..Len(category_map) : Contains(category_map[i].k_it, upper(d))}

\* C8 (as amended): the label assigned is the label of the first term, in
\* table declaration order, that is contained in the upper-cased
\* description; it is absent when no term is contained.
C8_FirstDeclaredTermWins ==
    c_done =>
        LET hits == CatHits(c_it)
        IN  IF hits = {} THEN c_en = None
            ELSE \E i \in hits :
                    /\ \A j \in hits : i <= j
                    /\ c_en = category_map[i].v_en

\* a lower-case description holding two terms with different labels was
\* translated by its first-declared term
C8_Witness ==
    /\ c_done
    /\ c_it = <<"D", "e", "p", "o", "s", "i", "t", "i", " ",
                "U", "f", "f", "i", "c", "i">>
    /\ c_en = <<"O", "f", "f", "i", "c", "e">>

\* C8 (as claimed): the label assigned is the label of the longest term
\* contained in the upper-cased description, absent when none is contained.
C8_LongestTermWins ==
    c_done =>
        LET hits == CatHits(c_it)
        IN  IF hits = {} THEN c_en = None
            ELSE \E i \in hits :
                    /\ \A j \in hits : Len(category_map[j].k_it) <= Len(category_map[i].k_it)
                    /\ c_en = category_map[i].v_en

(***************************************************************************)
(* Specification SpecRouter: one call of LLMRouterTool.ask_building_data   *)
(***************************************************************************)

\* words the question is made of, separated by single spaces
QueryWords == {
    <<"C", "o", "n", "n", "e", "c", "t", "e", "d">>,
    <<"N", "E", "X", "T", " ", "T", "O">>,
    <<"t", "e", "m", "p", "e", "r", "a", "t", "u", "r", "e">>,
    <<"M", "a", "x">>,
    <<"h", "e", "l", "l", "o">>,
    <<"A", "d", "m", "i", "n">>
}

RECURSIVE Questions(_)
Questions(n) ==
    IF n = 0 THEN {<<>>}
    ELSE LET shorter == Questions(n - 1)
         IN  shorter \cup QueryWords
                     \cup {q \o <<" ">> \o w : q \in shorter \ {<<>>}, w \in QueryWords}

RoomNames == {None, <<"S", "a", "l", "a", " ", "1">>}

\* the InfluxDB side of __init__: no client, a client without a bucket
\* name, a client with one
InfluxConfigs ==
    {[api |-> FALSE, bucket |-> None],
     [api |-> TRUE, bucket |-> None],
     [api |-> TRUE, bucket |-> <<"b", "1">>]}

\* room_to_sensor_map of the sensor config the tool was constructed with
sensor_map_keys == {K_Room101, K_Lab7}
sensor_map == [k \in sensor_map_keys |-> IF k = K_Room101 THEN <<"s", "1">> ELSE <<>>]

\* sensor_map.get(room_key, 's0'): a lookup that never misses
sensor_map_get_Default(room_key) ==
    IF room_key \in sensor_map_keys THEN sensor_map[room_key] ELSE <<"s", "0">>

\* sensor_map.get(room_key)
sensor_map_get(room_key) ==
    IF room_key \in sensor_map_keys THEN sensor_map[room_key] ELSE None

\* decoded response bodies of the inference endpoint
Body(shape, result, output, choices, text) ==
    [shape |-> shape, result |-> result, output |-> output,
     choices |-> choices, text |-> text]

LLMReplies ==
    {[status |-> "ok",
      data |-> Body("result", <<"R", "E", "T", "U", "R", "N", " ", "1">>, <<>>, <<>>, None)],
     [status |-> "ok",
      data |-> Body("result", FenceCypher \o <<"R", "E", "T", "U", "R", "N", " ", "1">> \o FenceEnd, <<>>, <<>>, None)],
     [status |-> "ok",
      data |-> Body("output", None,
                    <<[has_content |-> FALSE, content |-> None],
                      [has_content |-> TRUE, content |-> <<"f", "r", "o", "m", "(", "b", "u", "c", "k", "e", "t", ":", "b", "u", "c", "k", "e", "t", ")">>]>>,
                    <<>>, None)],
     [status |-> "ok",
      data |-> Body("choices", None, <<>>,
                    <<[is_dict |-> TRUE, content |-> <<"R", "E", "T", "U", "R", "N", " ", "2">>]>>, None)],
     [status |-> "ok",
      data |-> Body("choices", None, <<>>, <<>>, None)],
     [status |-> "ok",
      data |-> Body("other", None, <<>>, <<>>, <<"R", "E", "T", "U", "R", "N", " ", "3">>)],
     [status |-> "ok",
      data |-> Body("other", None, <<>>, <<>>, None)],
     [status |-> "http_error",
      data |-> Body("result", <<"R", "E", "T", "U", "R", "N", " ", "1">>, <<>>, <<>>, None)],
     [status |-> "connection_error",
      data |-> Body("other", None, <<>>, <<>>, None)]}

\* results of the room lookup: lists of rows, a row being the sequence of
\* its (column, value) pairs
Col_room_key == <<"r", "o", "o", "m", "_", "k", "e", "y">>
RowSets ==
    {<<>>,
     << <<<<Col_room_key, K_Room101>>>> >>,
     << <<<<<<"k">>, K_Lab7>>>> >>,
     << <<<<Col_room_key, None>>>> >>,
     << <<<<Col_room_key, K_g1>>>> >>}

InitRouter ==
    /\ q_text \in Questions(MaxQueryWords)
    /\ room_name \in RoomNames
    /\ influx \in InfluxConfigs
    /\ r_pc = "start"
    /\ r_route = "none"
    /\ calls = <<>>
    /\ llm_text = None
    /\ sensor_key = None
    /\ rows = <<>>
    /\ r_out = "none"
    /\ NormIdle
    /\ CatIdle
    /\ ImportIdle
    /\ ConfigIdle
    /\ ToolIdle
    /\ QueryIdle

\* one HTTP request to the inference endpoint, with the status it got and
\* the text the call returned (Raised when the call raised)
LLMCall(step, status, text) ==
    [kind |-> "llm", step |-> step, status |-> status, text |-> text]
CypherCall(text) == [kind |-> "cypher", step |-> "store", status |-> "ok", text |-> text]
FluxCall(text) == [kind |-> "flux", step |-> "store", status |-> "ok", text |-> text]

\* ask_building_data up to its first external call: the intent is detected
\* and, for a time-series question, room_name is required
Route ==
    /\ r_pc = "start"
    /\ r_route' = intent(q_text)
    /\ IF intent(q_text) = "structural"
       THEN r_pc' = "llm_structural" /\ r_out' = r_out
       ELSE IF intent(q_text) = "time-series"
       THEN IF ~Truthy(room_name)
            THEN r_pc' = "raised" /\ r_out' = "ValueError"
            ELSE r_pc' = "llm_room" /\ r_out' = r_out
       ELSE r_pc' = "llm_default" /\ r_out' = r_out
    /\ UNCHANGED <<q_text, room_name, influx, calls, llm_text, sensor_key, rows,
                   normVars, catVars, importVars, configVars, toolVars, queryVars>>

\* one call of ask_llm_for_query: one HTTP request; it raises, or returns
\* the cleaned text
AskLLM ==
    /\ r_pc \in {"llm_structural", "llm_room", "llm_flux", "llm_default"}
    /\ \E reply \in LLMReplies :
        LET text == IF Raises(reply) THEN Raised ELSE ask_llm_for_query(reply)
        IN  /\ calls' = Append(calls, LLMCall(r_pc, reply.status, text))
            /\ IF text = Raised
               THEN /\ r_pc' = "raised"
                    /\ r_out' = "LLMError"
                    /\ llm_text' = llm_text
               ELSE /\ r_pc' = CASE r_pc = "llm_structural" -> "run_structural"
                                 [] r_pc = "llm_room" -> "run_room"
                                 [] r_pc = "llm_flux" -> "run_flux"
                                 [] r_pc = "llm_default" -> "run_default"
                    /\ r_out' = r_out
                    /\ llm_text' = text
    /\ UNCHANGED <<q_text, room_name, influx, r_route, sensor_key, rows,
                   normVars, catVars, importVars, configVars, toolVars, queryVars>>

\* return self._run_cypher(cypher): structural and default branch
RunCypher ==
    /\ r_pc \in {"run_structural", "run_default"}
    /\ calls' = Append(calls, CypherCall(llm_text))
    /\ \/ r_pc' = "raised" /\ r_out' = "StoreError"
       \/ r_pc' = "returned" /\ r_out' = "rows"
    /\ UNCHANGED <<q_text, room_name, influx, r_route, llm_text, sensor_key, rows,
                   normVars, catVars, importVars, configVars, toolVars, queryVars>>

\* rows = self._run_cypher(cypher_room), then the room_key and the sensor
\* key are looked up
RunRoomCypher ==
    /\ r_pc = "run_room"
    /\ calls' = Append(calls, CypherCall(llm_text))
    /\ \/ r_pc' = "raised" /\ r_out' = "StoreError" /\ sensor_key' = sensor_key
          /\ rows' = rows
       \/ \E rs \in RowSets :
            /\ rows' = rs
            /\ IF rs = <<>>
               THEN r_pc' = "raised" /\ r_out' = "NoRoomKey" /\ sensor_key' = sensor_key
               ELSE IF ~Truthy(room_key_of(rs[1]))
               THEN r_pc' = "raised" /\ r_out' = "NoExtract" /\ sensor_key' = sensor_key
               ELSE IF ~Truthy(sensor_map_get(room_key_of(rs[1])))
               THEN r_pc' = "raised" /\ r_out' = "NoSensor" /\ sensor_key' = sensor_key
               ELSE /\ r_pc' = "llm_flux"
                    /\ r_out' = r_out
                    /\ sensor_key' = sensor_map_get(room_key_of(rs[1]))
    /\ UNCHANGED <<q_text, room_name, influx, r_route, llm_text,
                   normVars, catVars, importVars, configVars, toolVars, queryVars>>

\* the placeholder bucket is replaced, then return self._run_flux(flux_query)
RunFlux ==
    /\ r_pc = "run_flux"
    /\ IF ~influx.api
       THEN r_pc' = "raised" /\ r_out' = "NotConfigured" /\ calls' = calls
       ELSE /\ calls' = Append(calls, FluxCall(flux_query(llm_text, influx.bucket)))
            /\ \/ r_pc' = "raised" /\ r_out' = "StoreError"
               \/ r_pc' = "returned" /\ r_out' = "rows"
    /\ UNCHANGED <<q_text, room_name, influx, r_route, llm_text, sensor_key, rows,
                   normVars, catVars, importVars, configVars, toolVars, queryVars>>

NextRouter == Route \/ AskLLM \/ RunCypher \/ RunRoomCypher \/ RunFlux

SpecRouter == InitRouter /\ [][NextRouter]_vars

\* C9: a question is routed as structural if its lowercased text contains a
\* structural keyword, otherwise as time-series if it contains a
\* time-series keyword, otherwise as ambiguous; with keywords of both sets
\* the structural route is taken and the time-series store is never queried.
C9_IntentRouting ==
    r_pc # "start" =>
        LET q == lower(q_text)
            s == \E n \in 1..Len(structural_kw) : Contains(structural_kw[n], q)
            t == \E n \in 1..Len(timeseries_kw) : Contains(timeseries_kw[n], q)
            steps == {calls[n].step : n \in 1..Len(calls)}
        IN  /\ s => r_route = "structural" /\ steps \subseteq {"llm_structural", "store"}
            /\ (~s /\ t) => r_route = "time-series"
                            /\ steps \subseteq {"llm_room", "llm_flux", "store"}
            /\ (~s /\ ~t) => r_route = "ambiguous" /\ steps \subseteq {"llm_default", "store"}
            /\ (s /\ t) => \A n \in 1..Len(calls) : calls[n].kind # "flux"

\* a question with a structural and a time-series keyword, in upper case,
\* ran to its end on the graph store
C9_Witness ==
    /\ q_text = <<"t", "e", "m", "p", "e", "r", "a", "t", "u", "r", "e", " ", "N", "E", "X", "T", " ", "T", "O">>
    /\ r_pc = "returned"
    /\ r_route = "structural"
    /\ Len(calls) = 2
    /\ calls[2].kind = "cypher"

\* C10 (as claimed): the query text submitted to the graph store or to the
\* time-series store is exactly the text ask_llm_for_query returned for
\* that step.
C10_Verbatim ==
    \A n \in 1..Len(calls) :
        calls[n].kind \in {"cypher", "flux"}
            => /\ n > 1
               /\ calls[n - 1].kind = "llm"
               /\ calls[n].text = calls[n - 1].text

\* C10 (as amended): the graph store gets the returned text verbatim; the
\* time-series store gets it with every occurrence of the word bucket
\* replaced by the quoted configured bucket name, and verbatim when no
\* bucket name is configured.
C10_VerbatimButBucket ==
    \A n \in 1..Len(calls) :
        calls[n].kind \in {"cypher", "flux"}
            => /\ n > 1
               /\ calls[n - 1].kind = "llm"
               /\ calls[n].kind = "cypher" => calls[n].text = calls[n - 1].text
               /\ calls[n].kind = "flux" =>
                     calls[n].text =
                        IF Truthy(influx.bucket)
                        THEN Replace(calls[n - 1].text, bucket,
                                     <<"\"">> \o influx.bucket \o <<"\"">>)
                        ELSE calls[n - 1].text

\* a generated Flux text naming the placeholder bucket twice was submitted
\* with both occurrences replaced by the quoted bucket name
C10_Witness ==
    /\ Len(calls) = 4
    /\ calls[3].text = <<"f", "r", "o", "m", "(", "b", "u", "c", "k", "e", "t", ":", "b", "u", "c", "k", "e", "t", ")">>
    /\ calls[4].kind = "flux"
    /\ calls[4].text = <<"f", "r", "o", "m", "(", "\"", "b", "1", "\"", ":", "\"", "b", "1", "\"", ")">>

\* the room lookup of the time-series route has returned its rows
C11_LookedUp ==
    /\ r_route = "time-series"
    /\ Len(calls) >= 2
    /\ ~(Len(calls) = 2 /\ r_out = "StoreError")

\* the room_key the first row gives, None for no row
C11_RoomKey == IF rows = <<>> THEN None ELSE room_key_of(rows[1])

\* the n-th external call generates or executes the time-series query
C11_TimeSeriesStep(n) == calls[n].step = "llm_flux" \/ calls[n].kind = "flux"

\* C11: in the time-series route a missing room_name raises before any
\* language-model or store call; an empty room lookup, a room_key that
\* cannot be extracted and a room_key without a sensor mapping each raise
\* before the time-series query is generated or executed; the time-series
\* query is generated and executed only after a room_key was resolved and
\* a sensor mapping for it was found.
C11_RaiseOrder ==
    /\ (r_pc # "start" /\ r_route = "time-series" /\ ~Truthy(room_name))
          => r_pc = "raised" /\ r_out = "ValueError" /\ calls = <<>>
    /\ (/\ C11_LookedUp
        /\ \/ rows = <<>>
           \/ ~Truthy(C11_RoomKey)
           \/ C11_RoomKey \notin sensor_map_keys
           \/ ~Truthy(sensor_map[C11_RoomKey]))
          => /\ r_pc = "raised"
             /\ r_out = (IF rows = <<>> THEN "NoRoomKey"
                         ELSE IF ~Truthy(C11_RoomKey) THEN "NoExtract"
                         ELSE "NoSensor")
             /\ \A n \in 1..Len(calls) : ~C11_TimeSeriesStep(n)
    /\ (\E n \in 1..Len(calls) : C11_TimeSeriesStep(n))
          => /\ C11_LookedUp
             /\ rows # <<>>
             /\ Truthy(C11_RoomKey)
             /\ C11_RoomKey \in sensor_map_keys
             /\ Truthy(sensor_map[C11_RoomKey])
             /\ sensor_key = sensor_map[C11_RoomKey]

\* the room lookup returned a room_key that has no sensor mapping and the
\* call raised after its two calls, the lookup being the last
C11_Witness ==
    /\ r_route = "time-series"
    /\ rows = << <<<<Col_room_key, K_g1>>>> >>
    /\ r_pc = "raised"
    /\ r_out = "NoSensor"
    /\ Len(calls) = 2
    /\ calls[2].kind = "cypher"

\* C12 (as claimed): every ask_llm_for_query whose request got a 2xx
\* response returns a text, whatever the shape of the decoded body.
C12_TextForEvery2xx ==
    \A n \in 1..Len(calls) :
        (calls[n].kind = "llm" /\ calls[n].status = "ok") => calls[n].text # Raised

\* C13: the language-model client never retries: every step of
\* ask_building_data sends at most one request, a store call directly
\* follows the one successful request of its step, and a request that got
\* a non-2xx response or failed to connect is the last external call: the
\* call raised with no second request and no store query.
C13_NoRetry ==
    /\ \A n \in 1..Len(calls) :
          (calls[n].kind = "llm" /\ calls[n].status # "ok")
              => /\ n = Len(calls)
                 /\ calls[n].text = Raised
                 /\ r_pc = "raised"
                 /\ r_out = "LLMError"
    /\ \A m, n \in 1..Len(calls) :
          (calls[m].kind = "llm" /\ calls[n].kind = "llm" /\ calls[m].step = calls[n].step)
              => m = n
    /\ \A n \in 1..Len(calls) :
          calls[n].kind \in {"cypher", "flux"}
              => /\ n > 1
                 /\ calls[n - 1].kind = "llm"
                 /\ calls[n - 1].status = "ok"
    /\ r_pc \in {"run_structural", "run_room", "run_flux", "run_default"}
          => /\ calls # <<>>
             /\ calls[Len(calls)].kind = "llm"
             /\ calls[Len(calls)].status = "ok"

\* the request for the Flux text got a non-2xx response: it is the third
\* and last external call and the time-series store was not queried
C13_Witness ==
    /\ Len(calls) = 3
    /\ calls[3].step = "llm_flux"
    /\ calls[3].status = "http_error"
    /\ r_pc = "raised"

(***************************************************************************)
(* SpecConfig: one Tools object, _load_sensor_config called again and      *)
(* again as time passes                                                    *)
(***************************************************************************)

\* seconds that pass between the object's previous call and the next
Elapsed == {0, 299, 300, 86399, 86400, 86410}

InitConfig ==
    /\ ConfigIdle
    /\ ToolIdle
    /\ QueryIdle
    /\ NormIdle
    /\ CatIdle
    /\ ImportIdle
    /\ RouterIdle

\* one call of _load_sensor_config, d seconds after the previous call and
\* with the files in state fs
LoadConfig(d, fs) ==
    LET r == load_sensor_config(cfg_cache, cfg_load_time, now + d, fs)
    IN  /\ now' = now + d
        /\ cfg_cache' = r.cache
        /\ cfg_load_time' = r.load_time
        /\ cfg_calls' = cfg_calls + 1
        /\ cfg_ret' = [kind |-> r.ret.kind,
                       id |-> r.ret.id,
                       cached |-> r.cached,
                       had_cache |-> cfg_cache # NoConfig /\ cfg_load_time # NoLoadTime,
                       elapsed |-> IF cfg_load_time = NoLoadTime THEN 0
                                   ELSE now + d - cfg_load_time]

CallLoadSensorConfig ==
    /\ cfg_calls < MaxLoads
    /\ \E d \in Elapsed, fs \in FileSystems : LoadConfig(d, fs)
    /\ UNCHANGED <<toolVars, normVars, catVars, importVars, routerVars, queryVars>>

NextConfig == CallLoadSensorConfig

SpecConfig == InitConfig /\ [][NextConfig]_vars

\* C15 (as claimed): with a config loaded before, _load_sensor_config
\* returns the cache without reading a file exactly when fewer than 300
\* seconds have passed since that load, however long the time passed is;
\* with nothing loaded before it reads.
C15_CacheWindow ==
    /\ cfg_ret.had_cache => (cfg_ret.cached <=> cfg_ret.elapsed < CacheWindow)
    /\ ~cfg_ret.had_cache => ~cfg_ret.cached

(***************************************************************************)
(* SpecToolkit: one call of query_topology, check_sensor_config or         *)
(* inspect_zone_metrics on a new Tools object                              *)
(***************************************************************************)

Operations == {"query_topology", "check_sensor_config", "inspect_zone_metrics"}

MeasurementTypes == {<<>>, <<"t", "e", "m", "p">>, <<" ", "A", "i", "r", " ">>, <<"H", "u", "m", "i", "d", "i", "t", "y">>}
AnalysisGoals == {None, <<"m", "a", "x">>, <<" ", "M", "i", "n">>, <<"a", "v", "g">>, <<"r", "e", "p", "o", "r", "t">>}

\* the arguments: given says whether the argument the operation requires
\* first is truthy (a filter, room_name, zone_description)
ArgsOf(op) ==
    IF op = "inspect_zone_metrics"
    THEN [given : BOOLEAN, measurement_type : MeasurementTypes,
          analysis_goal : AnalysisGoals]
    ELSE [given : BOOLEAN, measurement_type : {<<>>}, analysis_goal : {None}]

\* the room_key of each record the graph query returns, in its order
AllRoomLists ==
    {<<>>,
     <<K_g1>>,
     <<None, K_g1>>,
     <<K_Room101>>,
     <<K_Lab7, K_Room101>>,
     <<K_Lab7, K_Office>>,
     <<K_Room101, K_Lab7, K_Office>>,
     <<K_Office, K_Room101, K_Office>>,
     <<K_Room101, K_Lab7, K_Office, K_g1>>,
     <<K_g1, K_Office, K_Lab7, K_Room101>>}
RoomLists == {l \in AllRoomLists : Len(l) <= MaxRooms}

InitToolkit ==
    /\ t_op \in Operations
    /\ t_args \in ArgsOf(t_op)
    /\ t_pc = "start"
    /\ driver = "none"
    /\ client = "none"
    /\ t_log = <<>>
    /\ rooms = <<>>
    /\ rooms_with_sensors = <<>>
    /\ sensor_values = <<>>
    /\ t_out = Message("none")
    /\ ConfigIdle
    /\ NormIdle
    /\ CatIdle
    /\ ImportIdle
    /\ RouterIdle
    /\ QueryIdle

\* the operation returns (or, for kind "raised", is left by an exception)
Return(out) == t_pc' = "done" /\ t_out' = out

\* the argument checks every operation starts with
Validate ==
    /\ t_pc = "start"
    /\ IF ~t_args.given
       THEN Return(Message("need_argument"))
       ELSE IF t_op = "inspect_zone_metrics" /\ ~Truthy(t_args.measurement_type)
       THEN Return(Message("need_measurement"))
       ELSE t_pc' = "connect" /\ t_out' = t_out
    /\ UNCHANGED <<t_op, t_args, driver, client, t_log, rooms, rooms_with_sensors,
                   sensor_values, configVars, normVars, catVars, importVars,
                   routerVars, queryVars>>

\* driver, error = self._get_neo4j_connection(); if error: return error
GetNeo4jConnection ==
    /\ t_pc = "connect"
    /\ \/ \* the library is missing or GraphDatabase.driver raises
          /\ driver' = driver
          /\ t_log' = t_log
          /\ Return(Message("graph_unavailable"))
       \/ \* the driver is created and verify_connectivity raises
          /\ driver' = "open"
          /\ t_log' = t_log \o <<"driver", "verify_failed">>
          /\ Return(Message("graph_unavailable"))
       \/ \* the driver is created and verified
          /\ driver' = "open"
          /\ t_log' = t_log \o <<"driver", "verified">>
          /\ t_pc' = "graph"
          /\ t_out' = t_out
    /\ UNCHANGED <<t_op, t_args, client, rooms, rooms_with_sensors, sensor_values,
                   configVars, normVars, catVars, importVars, routerVars, queryVars>>

\* the try block around the graph query: the query is run and the driver
\* closed, in the except branch too
RunGraphQuery ==
    /\ t_pc = "graph"
    /\ driver' = "closed"
    /\ \/ /\ t_log' = t_log \o <<"cypher", "driver.close">>
          /\ rooms' = rooms
          /\ Return(Message("graph_failed"))
       \/ \E found \in RoomLists :
            /\ t_log' = t_log \o <<"cypher", "driver.close">>
            /\ rooms' = found
            /\ IF t_op = "query_topology"
               THEN Return([Message("items") EXCEPT !.analyzed = Len(found)])
               ELSE IF found = <<>>
               THEN Return(Message("no_rooms"))
               ELSE t_pc' = "config" /\ t_out' = t_out
    /\ UNCHANGED <<t_op, t_args, client, rooms_with_sensors, sensor_values,
                   configVars, normVars, catVars, importVars, routerVars, queryVars>>

\* sensor_config = self._load_sensor_config() and what follows it up to
\* the next external call: the answer of check_sensor_config, step 2 of
\* inspect_zone_metrics
LoadSensorConfig ==
    /\ t_pc = "config"
    /\ \E fs \in FileSystems : LoadConfig(0, fs)
    /\ t_log' = IF cfg_ret'.cached THEN t_log ELSE Append(t_log, "open_config")
    /\ IF cfg_ret'.kind = "raised"
       THEN Return(Message("raised")) /\ rooms_with_sensors' = rooms_with_sensors
       ELSE IF cfg_ret'.kind = "error"
       THEN Return(Message("config_error")) /\ rooms_with_sensors' = rooms_with_sensors
       ELSE IF t_op = "check_sensor_config"
       THEN /\ rooms_with_sensors' = rooms_with_sensors
            /\ IF room_to_sensor_map_get(cfg_ret'.id, rooms[1]).items = <<>>
               THEN Return(Message("none_configured"))
               ELSE Return(Message("configured_sensors"))
       ELSE LET found == rooms_with_sensors_of(room_data(rooms), cfg_ret'.id,
                             measurement_normalized(t_args.measurement_type))
            IN  /\ rooms_with_sensors' = found
                /\ IF found = <<>>
                   THEN Return(Message("no_sensors"))
                   ELSE t_pc' = "influx" /\ t_out' = t_out
    /\ UNCHANGED <<t_op, t_args, driver, client, rooms, sensor_values,
                   normVars, catVars, importVars, routerVars, queryVars>>

\* client, bucket, error = self._get_influxdb_client(); if error: return error
GetInfluxdbClient ==
    /\ t_pc = "influx"
    /\ \/ \* library or INFLUX_* variable missing, or InfluxDBClient raises
          /\ client' = client
          /\ t_log' = t_log
          /\ Return(Message("influx_unavailable"))
       \/ /\ client' = "open"
          /\ t_log' = Append(t_log, "client")
          /\ t_pc' = "flux"
          /\ t_out' = t_out
    /\ UNCHANGED <<t_op, t_args, driver, rooms, rooms_with_sensors, sensor_values,
                   configVars, normVars, catVars, importVars, routerVars, queryVars>>

\* the sensor ids the batch query asks for
sensor_ids == {rooms_with_sensors[i].sensor_id : i \in 1..Len(rooms_with_sensors)}

\* the try block around the batch query, the client closed in the except
\* branch too, and step 4 on the values returned
RunFluxQuery ==
    /\ t_pc = "flux"
    /\ client' = "closed"
    /\ t_log' = t_log \o <<"flux", "client.close">>
    /\ \/ /\ sensor_values' = sensor_values
          /\ Return(Message("influx_failed"))
       \/ \E values \in [sensor_ids -> Values] :
            /\ sensor_values' = values
            /\ Return(analyze(analysis_goal_lower(t_args.analysis_goal),
                              rooms_with_sensors, values))
    /\ UNCHANGED <<t_op, t_args, driver, rooms, rooms_with_sensors,
                   configVars, normVars, catVars, importVars, routerVars, queryVars>>

NextToolkit ==
    \/ Validate
    \/ GetNeo4jConnection
    \/ RunGraphQuery
    \/ LoadSensorConfig
    \/ GetInfluxdbClient
    \/ RunFluxQuery

SpecToolkit == InitToolkit /\ [][NextToolkit]_vars

\* C14 (as claimed): when a toolkit operation has returned, no graph
\* driver and no time-series client that the call created is left open.
C14_NoConnectionLeftOpen ==
    t_pc = "done" => (driver # "open" /\ client # "open")

\* C16 (as claimed): no toolkit operation is left by an exception: every
\* call ends with a message returned.
C16_NeverRaises == t_pc = "done" => t_out.kind # "raised"

\* the config maps the room to a sensor whose type (for a mapping) or id
\* (for an id or a list of ids) contains the measurement name m
C17_HasSensor(config, room_id, m) ==
    /\ config = "A"
    /\ room_id \in DOMAIN room_to_sensor_map_A
    /\ LET sensors == room_to_sensor_map_A[room_id]
       IN  \E i \in 1..Len(sensors.items) :
              Contains(m, lower(IF sensors.shape = "dict" THEN sensors.items[i].type
                                ELSE sensors.items[i].id))

\* C17: inspect_zone_metrics, with rooms found and the config loaded, when
\* no room found has a sensor of the alias-normalized measurement type:
\* the call has returned the no-sensor message, without an exception and
\* without creating a time-series client or sending a query.
C17_NoMatchingSensor ==
    (/\ t_op = "inspect_zone_metrics"
     /\ cfg_ret.kind = "config"
     /\ rooms # <<>>
     /\ \A i \in 1..Len(rooms) :
           Truthy(rooms[i]) =>
              ~C17_HasSensor(cfg_ret.id, rooms[i],
                             measurement_normalized(t_args.measurement_type)))
        => /\ t_pc = "done"
           /\ t_out.kind = "no_sensors"
           /\ client = "none"
           /\ \A n \in 1..Len(t_log) : t_log[n] \notin {"client", "flux"}

\* air quality was asked for two rooms that have temperature sensors only
C17_Witness ==
    /\ t_op = "inspect_zone_metrics"
    /\ t_args.measurement_type = <<" ", "A", "i", "r", " ">>
    /\ rooms = <<K_Lab7, K_Office>>
    /\ cfg_ret.id = "A"
    /\ t_out.kind = "no_sensors"

\* the time-series store has answered the batch query
C18_Answered ==
    /\ t_op = "inspect_zone_metrics"
    /\ t_pc = "done"
    /\ t_out.kind \in {"no_data", "max", "min", "avg", "no_numeric", "report"}

\* the latest value of the i-th room with a matching sensor
C18_Value(i) == sensor_values[rooms_with_sensors[i].sensor_id]

\* the rooms with a matching sensor that returned a value, a number
C18_WithValue == {i \in 1..Len(rooms_with_sensors) : C18_Value(i).kind # "none"}
C18_Numeric == {i \in 1..Len(rooms_with_sensors) : C18_Value(i).kind = "int"}

RECURSIVE C18_Sum(_)
C18_Sum(I) ==
    IF I = {} THEN 0
    ELSE LET i == CHOOSE x \in I : TRUE IN C18_Value(i).v + C18_Sum(I \ {i})

\* C18: with goal avg the average reported is the arithmetic mean (to the
\* hundredth) of the numeric values of the rooms that returned data, the
\* range is their minimum and maximum, the room count is their number; an
\* average is reported whenever there is such a value.
C18_Average ==
    /\ t_out.kind = "avg" =>
          /\ C18_Numeric # {}
          /\ t_out.analyzed = Cardinality(C18_Numeric)
          /\ LET n == Cardinality(C18_Numeric)
                 diff == t_out.average * n - 100 * C18_Sum(C18_Numeric)
             IN  2 * diff <= n /\ -2 * diff <= n
          /\ \E i \in C18_Numeric : t_out.lo = 100 * C18_Value(i).v
          /\ \A i \in C18_Numeric : t_out.lo <= 100 * C18_Value(i).v
          /\ \E i \in C18_Numeric : t_out.hi = 100 * C18_Value(i).v
          /\ \A i \in C18_Numeric : t_out.hi >= 100 * C18_Value(i).v
    /\ (/\ C18_Answered
        /\ analysis_goal_lower(t_args.analysis_goal) = <<"a", "v", "g">>
        /\ C18_Numeric # {})
          => t_out.kind = "avg"

\* three rooms returned 20, 22 and 24: average 22.00, range 20.00 - 24.00
C18_Witness ==
    /\ t_out.kind = "avg"
    /\ {C18_Value(i) : i \in 1..Len(rooms_with_sensors)}
          = {IntValue(20), IntValue(22), IntValue(24)}
    /\ t_out.average = 2200
    /\ t_out.lo = 2000
    /\ t_out.hi = 2400
    /\ t_out.analyzed = 3

\* C19: with goal max (min), when some room with data returned a number,
\* the room reported is one that returned a number and no room's number is
\* greater (smaller) than it; max (min) is answered whenever a room
\* returned data.
C19_Extremum ==
    /\ (t_out.kind \in {"max", "min"} /\ C18_Numeric # {}) =>
          /\ t_out.value.kind = "int"
          /\ \E i \in C18_Numeric :
                /\ rooms_with_sensors[i].room_id = t_out.room
                /\ C18_Value(i) = t_out.value
          /\ \A j \in C18_Numeric :
                IF t_out.kind = "max" THEN C18_Value(j).v <= t_out.value.v
                ELSE C18_Value(j).v >= t_out.value.v
    /\ (/\ C18_Answered
        /\ analysis_goal_lower(t_args.analysis_goal) \in {<<"m", "a", "x">>, <<"m", "i", "n">>}
        /\ C18_WithValue # {})
          => t_out.kind = IF analysis_goal_lower(t_args.analysis_goal) = <<"m", "a", "x">>
                          THEN "max" ELSE "min"

\* the highest value was asked for; one room returned a string and the
\* others negative numbers, and a room with -3 is reported
C19_Witness ==
    /\ t_out.kind = "max"
    /\ \E i \in 1..Len(rooms_with_sensors) : C18_Value(i) = StrValue
    /\ \A i \in 1..Len(rooms_with_sensors) : C18_Value(i) \in {StrValue, IntValue(-3)}
    /\ t_out.value = IntValue(-3)

\* C20: the rooms with a matching sensor split into those that returned a
\* value and those that did not: the room reported for max or min and the
\* rooms counted returned a value, the report has one row for each room
\* that returned a value and none for any other, and its footer count plus
\* its rows are the rooms with a matching sensor; with no value at all no
\* figure is reported.
C20_Partition ==
    /\ t_out.kind \in {"max", "min"} =>
          /\ \E i \in C18_WithValue : rooms_with_sensors[i].room_id = t_out.room
          /\ t_out.analyzed = Cardinality(C18_WithValue)
    /\ t_out.kind = "avg" => C18_Numeric \subseteq C18_WithValue
    /\ t_out.kind = "report" =>
          /\ {t_out.rows[k].room_id : k \in 1..Len(t_out.rows)}
                = {rooms_with_sensors[i].room_id : i \in C18_WithValue}
          /\ Len(t_out.rows) = Cardinality(C18_WithValue)
          /\ \A k \in 1..Len(t_out.rows) : t_out.rows[k].value # NoValue
          /\ t_out.without_data = Len(rooms_with_sensors) - Cardinality(C18_WithValue)
          /\ t_out.without_data + Len(t_out.rows) = Len(rooms_with_sensors)
          /\ t_out.with_sensors = Len(rooms_with_sensors)
    /\ C18_Answered => (t_out.kind = "no_data" <=> C18_WithValue = {})

\* a report over three rooms with sensors: one returned 0, one 22 and one
\* nothing: two rows and a footer count of one
C20_Witness ==
    /\ t_out.kind = "report"
    /\ Len(rooms_with_sensors) = 3
    /\ Len(t_out.rows) = 2
    /\ t_out.rows[2].value = IntValue(0)
    /\ t_out.without_data = 1

(***************************************************************************)
(* The query texts of one call of a toolkit operation                      *)
(***************************************************************************)

\* c repeated n times
RECURSIVE Repeat(_, _)
Repeat(c, n) == IF n = 0 THEN <<>> ELSE <<c>> \o Repeat(c, n - 1)

\* the words user texts are made of; the last holds every character
\* _sanitize_string removes
UserWords == {<<"a", "l", "l">>, <<"o", "f", "f", "i", "c", "e", "s">>, <<"f", "l", "o", "o", "r">>, <<"2">>, <<"K", "i", "t", "c", "h", "e", "n">>, <<"l", "a", "b">>,
              <<"s", "m", "a", "l", "l">>, <<"'", "\"", "\\", ";", Backtick>>}

\* texts of up to n words joined by one space
RECURSIVE WordTexts(_)
WordTexts(n) ==
    IF n = 1
    THEN UserWords
    ELSE WordTexts(n - 1)
         \cup {t \o <<" ">> \o w : t \in WordTexts(n - 1), w \in UserWords}

\* texts longer than SanitizeLimit: plain, with a character to remove, and a
\* floor reference with a long number
LongTexts == {Repeat("a", SanitizeLimit + 1),
              <<"'">> \o Repeat("a", SanitizeLimit + 1),
              <<"f", "l", "o", "o", "r", " ">> \o Repeat("7", SanitizeLimit + 1)}

UserTexts == WordTexts(MaxZoneWords) \cup LongTexts \cup {<<>>}

TimeRanges == {None, <<>>, <<"1", "h">>, <<"2", "4", "h">>, <<"7", "d">>, <<"2", "w">>, <<"3", "m">>, <<" ", "6", "h", " ">>,
               <<"1", "y">>, <<"h">>, <<"1", " ", "h">>, <<"-", "1", "h">>, <<"1", "h", ";", " ", "d", "r", "o", "p">>, <<" ", " ">>}

QueryOperations == {"query_topology", "check_sensor_config", "inspect_zone_metrics"}

NoQueryArgs ==
    [category |-> None, floor |-> None, name_contains |-> None,
     room_name |-> None, zone_description |-> None, time_range |-> None]

\* the arguments an operation can be called with: one user text in any of
\* the text arguments it has
QueryArgsOf(operation) ==
    IF operation = "query_topology"
    THEN UNION {{[NoQueryArgs EXCEPT !.category = c, !.floor = f, !.name_contains = n] :
                   c \in {None, x}, f \in {None, x}, n \in {None, x}} : x \in UserTexts}
    ELSE IF operation = "check_sensor_config"
    THEN {[NoQueryArgs EXCEPT !.room_name = x] : x \in UserTexts \cup {None}}
    ELSE {[NoQueryArgs EXCEPT !.zone_description = x, !.time_range = t] :
            x \in UserTexts \cup {None}, t \in TimeRanges}

InitQueries ==
    /\ g_op \in QueryOperations
    /\ g_args \in QueryArgsOf(g_op)
    /\ g_pc = "called"
    /\ where_clauses = <<>>
    /\ range_start = None
    /\ NormIdle
    /\ CatIdle
    /\ ImportIdle
    /\ RouterIdle
    /\ ConfigIdle
    /\ ToolIdle

\* the argument check each operation starts with
ArgumentsGiven ==
    IF g_op = "query_topology"
    THEN Truthy(g_args.category) \/ Truthy(g_args.floor) \/ Truthy(g_args.name_contains)
    ELSE IF g_op = "check_sensor_config"
    THEN Truthy(g_args.room_name)
    ELSE Truthy(g_args.zone_description)

\* the operation returns its message for missing arguments
RejectArguments ==
    /\ g_pc = "called"
    /\ ~ArgumentsGiven
    /\ g_pc' = "returned"
    /\ UNCHANGED <<g_op, g_args, where_clauses, range_start,
                   normVars, catVars, importVars, routerVars, configVars, toolVars>>

\* the operation builds cypher_query from its arguments
BuildCypherQuery ==
    /\ g_pc = "called"
    /\ ArgumentsGiven
    /\ where_clauses' =
         IF g_op = "query_topology"
         THEN topology_where_clauses(g_args.category, g_args.floor, g_args.name_contains)
         ELSE IF g_op = "check_sensor_config"
         THEN sensor_config_where_clauses(g_args.room_name)
         ELSE zone_where_clauses(g_args.zone_description)
    /\ g_pc' = "cypher"
    /\ UNCHANGED <<g_op, g_args, range_start,
                   normVars, catVars, importVars, routerVars, configVars, toolVars>>

\* inspect_zone_metrics builds flux_query
BuildFluxQuery ==
    /\ g_pc = "cypher"
    /\ g_op = "inspect_zone_metrics"
    /\ range_start' = time_range_clean(g_args.time_range)
    /\ g_pc' = "flux"
    /\ UNCHANGED <<g_op, g_args, where_clauses,
                   normVars, catVars, importVars, routerVars, configVars, toolVars>>

NextQueries ==
    \/ RejectArguments
    \/ BuildCypherQuery
    \/ BuildFluxQuery

SpecQueries == InitQueries /\ [][NextQueries]_vars

\* the zone description of an inspect_zone_metrics call whose cypher_query
\* is built
ZoneBuilt == g_op = "inspect_zone_metrics" /\ g_pc \in {"cypher", "flux"}

HasClause(kind) == \E i \in 1..Len(where_clauses) : where_clauses[i].kind = kind

\* C21 (as claimed): when the zone description of inspect_zone_metrics
\* contains a category keyword, the room filter has a condition on that
\* category and no TRUE condition; the fuzzy condition on the whole
\* description is there only when neither a floor reference nor a category
\* keyword was found.
C21_KeywordRestrictsRooms ==
    ZoneBuilt =>
        LET zone_lower == lower(g_args.zone_description)
        IN  /\ ContainsAny(category_keywords, zone_lower) =>
                  /\ \E i \in 1..Len(where_clauses) :
                        /\ where_clauses[i].kind = "category"
                        /\ Contains(where_clauses[i].value, zone_lower)
                        /\ \E n \in 1..Len(category_keywords) :
                              where_clauses[i].value = category_keywords[n]
                  /\ ~HasClause("TRUE")
            /\ HasClause("fuzzy") =>
                  /\ ~ContainsAny(category_keywords, zone_lower)
                  /\ floor_match(zone_lower) = None

\* a supported token: digits followed by one of h, d, w, m
SupportedToken(t) == Truthy(t) /\ IsTimeRange(t)

\* C22 (as claimed): the start of the range of the Flux query is the
\* time_range argument when that is a supported token, and "1h" for every
\* other argument.
C22_WindowIsArgumentOrDefault ==
    g_pc = "flux" =>
        range_start = IF SupportedToken(g_args.time_range)
                      THEN g_args.time_range
                      ELSE <<"1", "h">>

\* C22 (amended): the start of the range of the Flux query is always a
\* supported token; it is the time_range argument with surrounding
\* whitespace stripped when that is a supported token, and "1h" otherwise,
\* also for an empty or missing argument.
C22_WindowIsStrippedArgumentOrDefault ==
    g_pc = "flux" =>
        /\ SupportedToken(range_start)
        /\ range_start =
             IF Truthy(g_args.time_range) /\ SupportedToken(strip(g_args.time_range))
             THEN strip(g_args.time_range)
             ELSE <<"1", "h">>

\* a supported token padded with spaces was given and reached the query
\* stripped
C22_Witness ==
    /\ g_pc = "flux"
    /\ g_args.time_range = <<" ", "6", "h", " ">>
    /\ range_start = <<"6", "h">>

\* the text arguments of the call
ArgumentTexts ==
    {g_args.category, g_args.floor, g_args.name_contains, g_args.room_name,
     g_args.zone_description}

\* C23 (as claimed): every value interpolated into cypher_query has none of
\* the characters ' " \ ; U+0060 and at most 100 characters, and
\* _sanitize_string applied twice gives what it gives applied once.
C23_InterpolatedValuesSanitized ==
    /\ \A i \in 1..Len(where_clauses) :
          /\ \A j \in 1..Len(where_clauses[i].value) :
                where_clauses[i].value[j] \notin DangerousChars
          /\ Len(where_clauses[i].value) <= SanitizeLimit
    /\ \A t \in ArgumentTexts :
          sanitize_string(sanitize_string(t)) = sanitize_string(t)

\* the attributes of a Room the toolkit's queries filter on or return
ClauseAttributes(clauses) ==
    UNION {clauses[i].attributes : i \in 1..Len(clauses)}

toolkit_attributes ==
    topology_returned
    \cup ClauseAttributes(topology_where_clauses(<<"x">>, <<"x">>, <<"x">>))
    \cup sensor_config_returned
    \cup ClauseAttributes(sensor_config_where_clauses(<<"x">>))
    \cup zone_returned
    \cup ClauseAttributes(zone_where_clauses(<<"f", "l", "o", "o", "r", " ", "1", " ", "o", "f", "f", "i", "c", "e">>))
    \cup ClauseAttributes(zone_where_clauses(<<"x">>))

\* C24 (as claimed): every attribute the router's prompts describe and every
\* attribute the toolkit's queries read or filter on is an attribute of each
\* Room record the import wrote.
C24_AttributesAreWritten ==
    \A k \in DOMAIN graph :
        (prompt_attributes \cup toolkit_attributes) \subseteq DOMAIN graph[k]

\* normalize(key) of each key, computed once
C25_NormalizedKey == [key \in KeyUniverse |-> normalize(key)]

\* C25 (as claimed): a key whose normalized form is empty is never the
\* room_key of a space, and a space whose short and long name are both
\* absent or empty gets a key only when the normalized key is its
\* normalized global id.
C25_KeyNamesItsSpace ==
    \A i \in 1..Len(resolved) :
        Truthy(resolved[i].found) =>
            /\ C25_NormalizedKey[resolved[i].found] # <<>>
            /\ (~Truthy(spaces[i].Name) /\ ~Truthy(spaces[i].LongName))
                  => C25_NormalizedKey[resolved[i].found] = normalize(spaces[i].GlobalId)

\* C26 (as claimed): when a run has ended, no record that the run upserted
\* for a space, under a matched key or under a fallback key, has the type
\* 'Placeholder'.
C26_PlaceholderLeavesSpaces ==
    RunComplete =>
        \A e \in SpaceUpserts : graph[e.room_key].type # Placeholder

====
